---- MODULE Spec2Model ----
(***************************************************************************)
(* A model of package command (github.com/creachadair/command): the       *)
(* argument traversal of Run, the flag scope resolver splitFlags/joinArgs, *)
(* the standard flag parser the traversal calls, the environment chain and *)
(* the help commands.                                                      *)
(*                                                                         *)
(* Tokens are sequences of one-character strings, so that the prefix and   *)
(* cut operations of the code are computed on characters.                  *)
(***************************************************************************)
EXTENDS Integers, Sequences, FiniteSets, TLC

VARIABLES
    scen,           \* [tree, family]: the command tree and the input family
    isFlagSet,      \* C.isFlagSet, per node
    fs,             \* C.Flags per node: the declared flags and their values
    setFlagsCalls,  \* per node: how often its SetFlags hook was entered
    envs,           \* the Env records of the current Run frames, root first
    cur,            \* index in envs of the frame that is executing
    pc,             \* position of the executing frame inside Run
    err,            \* the error value being returned
    out,            \* what was written to the environment's sink
    handles,        \* the cancellable contexts: [canceled, cause] per handle
    hooks,          \* the hook invocations of the current top-level Run
    rawArgs,        \* the argument vector of the current top-level Run
    calls,          \* number of top-level Run calls started
    split,          \* the locals of the last Env.parseFlags call of the
                    \* current top-level Run: the flag set and arguments it
                    \* was given, what splitFlags returned, and toParse
    panic,          \* the panic of the current top-level Run: whether it is
                    \* still propagating, its value, the frame and the
                    \* command that were running, and the hook that raised it
    exit,           \* what RunOrFail did with the error of the last Run, if
                    \* the caller went through it: exit status, log, usage
    info            \* the HelpInfo the caller last asked a command for

vars == <<scen, isFlagSet, fs, setFlagsCalls, envs, cur, pc, err, out, handles,
          hooks, rawArgs, calls, split, panic, exit, info>>

----------------------------------------------------------------------------
(* Bounds *)

\* longest enumerated argument vector
MaxLen == 3
\* number of sequential top-level Run calls on one tree
MaxCalls == 2

----------------------------------------------------------------------------
(* Tokens *)

tDash     == <<"-">>
tDashDash == <<"-", "-">>
tX        == <<"x">>
tY        == <<"y">>
t1        == <<"1">>
t2        == <<"2">>
t3        == <<"3">>
nA        == <<"A">>
nB        == <<"B">>
nC        == <<"C">>
nD        == <<"D">>
nE        == <<"E">>
nH        == <<"h">>
nHelp     == <<"h", "e", "l", "p">>
nRoot     == <<"r", "o", "o", "t">>
nOne      == <<"o", "n", "e">>
nTwo      == <<"t", "w", "o">>
nThree    == <<"t", "h", "r", "e", "e">>
nFour     == <<"f", "o", "u", "r">>
nApp      == <<"a", "p", "p">>
nGrp      == <<"g", "r", "p">>
nMid      == <<"m", "i", "d">>
nLeaf     == <<"l", "e", "a", "f">>
nCfg      == <<"c", "f", "g">>
nShow     == <<"s", "h", "o", "w">>
nNotes    == <<"n", "o", "t", "e", "s">>
nFaq      == <<"f", "a", "q">>
nSecret   == <<"s", "e", "c", "r", "e", "t">>
nExample  == <<"e", "x", "a", "m", "p", "l", "e">>
nSpecial  == <<"s", "p", "e", "c", "i", "a", "l">>
nMagic    == <<"m", "a", "g", "i", "c">>
nEcho     == <<"e", "c", "h", "o">>
nLabel    == <<"l", "a", "b", "e", "l">>
nP        == <<"p">>
nN        == <<"n">>
nYy       == <<"y">>
t0        == <<"0">>
nBar      == <<"b", "a", "r">>
nNonesuch == <<"n", "o", "n", "e", "s", "u", "c", "h">>
nTrue     == <<"t", "r", "u", "e">>
nFalse    == <<"f", "a", "l", "s", "e">>

\* -name, --name, -name=value, --name=value
F1(name)      == <<"-">> \o name
F2(name)      == <<"-", "-">> \o name
F1v(name, v)  == <<"-">> \o name \o <<"=">> \o v
F2v(name, v)  == <<"-", "-">> \o name \o <<"=">> \o v

----------------------------------------------------------------------------
(* Error values.  type is "nil", "error" (an errors.New / fmt.Errorf       *)
(* value), "ErrRequestHelp", "UsageError" or "PanicError"; msg is the     *)
(* fixed part of the text, node the command named in it or carried by it,  *)
(* val the variable part (a token), env the index of the Env a PanicError  *)
(* or UsageError carries (0 for none).                                     *)

MkErr(type, msg, node, val) ==
    [type |-> type, msg |-> msg, node |-> node, val |-> val, env |-> 0]

Nil == MkErr("nil", "", "", <<>>)

ErrRequestHelp == MkErr("ErrRequestHelp", "help requested", "", <<>>)

\* flag.ErrHelp, returned by FlagSet.Parse for an undeclared -h / -help
FlagErrHelp == MkErr("error", "flag: help requested", "", <<>>)

----------------------------------------------------------------------------
(* strings *)

\* strings.CutPrefix(s, "-")
HasDashPrefix(s) == Len(s) >= 1 /\ s[1] = "-"

\* strings.TrimPrefix(s, "-")
TrimDash(s) == IF HasDashPrefix(s) THEN Tail(s) ELSE s

\* index of the first "=" of s at or after position from, 0 when there is none
RECURSIVE IndexEq(_, _)
IndexEq(s, from) ==
    IF from > Len(s) THEN 0
    ELSE IF s[from] = "=" THEN from
    ELSE IndexEq(s, from + 1)

\* strings.Cut(s, "="): before, after, found
CutEq(s) ==
    LET i == IndexEq(s, 1) IN
    IF i = 0 THEN [before |-> s, after |-> <<>>, found |-> FALSE]
    ELSE [before |-> SubSeq(s, 1, i - 1), after |-> SubSeq(s, i + 1, Len(s)), found |-> TRUE]

----------------------------------------------------------------------------
(* flag.FlagSet: a sequence of flags [name, kind, private, value], kind    *)
(* one of "string", "bool", "int"; private says that the usage text still  *)
(* starts with "PRIVATE:".                                                 *)

MkFlag(name, kind, private, value) ==
    [name |-> name, kind |-> kind, private |-> private, value |-> value]

\* FlagSet.Lookup: the index of the flag called name, 0 for nil
Lookup(F, name) ==
    IF \E i \in 1..Len(F) : F[i].name = name
    THEN CHOOSE i \in 1..Len(F) : F[i].name = name
    ELSE 0

isBoolFlag(f) == f.kind = "bool"

Digits == {"0", "1", "2", "3", "4", "5", "6", "7", "8", "9"}

\* strconv.ParseBool accepts exactly these
BoolTrue  == {<<"1">>, <<"t">>, <<"T">>, <<"T","R","U","E">>, <<"t","r","u","e">>, <<"T","r","u","e">>}
BoolFalse == {<<"0">>, <<"f">>, <<"F">>, <<"F","A","L","S","E">>, <<"f","a","l","s","e">>, <<"F","a","l","s","e">>}

\* decimal integers, with an optional sign
IsInt(v) ==
    LET d == IF Len(v) >= 1 /\ v[1] \in {"-", "+"} THEN Tail(v) ELSE v IN
    Len(d) >= 1 /\ \A i \in 1..Len(d) : d[i] \in Digits

\* Value.Set(v) of a flag of the given kind: whether it succeeds
SetOk(kind, v) ==
    CASE kind = "bool" -> v \in BoolTrue \cup BoolFalse
      [] kind = "int"  -> IsInt(v)
      [] OTHER         -> TRUE

\* the value stored by a successful Value.Set(v)
Stored(kind, v) ==
    IF kind = "bool" THEN (IF v \in BoolTrue THEN nTrue ELSE nFalse) ELSE v

\* a Set that stores the value in every flag of the set
SetFlag_all(F, i, v) == [k \in 1..Len(F) |-> [F[k] EXCEPT !.value = Stored(F[i].kind, v)]]

SetFlag(F, i, v) == [F EXCEPT ![i].value = Stored(F[i].kind, v)]

\* a flag package that knows no help flag
IsHelpName_never(name) == FALSE

\* the names FlagSet.Parse takes for a request for help when undeclared
IsHelpName(name) == name = nHelp \/ name = nH

\* FlagSet.Parse(arguments) with ContinueOnError: the flag set after
\* parsing, the error, and FlagSet.Args()
\* a parser that takes every argument for a positional one
FlagParse_lenient(F, args) == [fs |-> F, err |-> Nil, args |-> args]

RECURSIVE FlagParse(_, _)
FlagParse(F, args) ==
    IF args = <<>> THEN [fs |-> F, err |-> Nil, args |-> args]
    ELSE
    LET s == Head(args) IN
    IF Len(s) < 2 \/ s[1] # "-" THEN [fs |-> F, err |-> Nil, args |-> args]
    ELSE
    LET numMinuses == IF s[2] = "-" THEN 2 ELSE 1 IN
    IF numMinuses = 2 /\ Len(s) = 2
    THEN [fs |-> F, err |-> Nil, args |-> Tail(args)]   \* "--" terminates the flags
    ELSE
    LET name0 == SubSeq(s, numMinuses + 1, Len(s)) IN
    IF Len(name0) = 0 \/ name0[1] = "-" \/ name0[1] = "="
    THEN [fs |-> F, err |-> MkErr("error", "bad flag syntax", "", s), args |-> args]
    ELSE
    LET eq       == IndexEq(name0, 2)                   \* equals cannot be first
        hasValue == eq # 0
        name     == IF hasValue THEN SubSeq(name0, 1, eq - 1) ELSE name0
        value    == IF hasValue THEN SubSeq(name0, eq + 1, Len(name0)) ELSE <<>>
        rest     == Tail(args)
        i        == Lookup(F, name)
    IN
    IF i = 0 THEN
        IF IsHelpName(name)
        THEN [fs |-> F, err |-> FlagErrHelp, args |-> rest]
        ELSE [fs |-> F, err |-> MkErr("error", "flag provided but not defined", "", name),
              args |-> rest]
    ELSE IF isBoolFlag(F[i]) THEN
        LET v == IF hasValue THEN value ELSE nTrue IN
        IF SetOk("bool", v)
        THEN FlagParse(SetFlag(F, i, v), rest)
        ELSE [fs |-> F, err |-> MkErr("error", "invalid boolean value", "", name),
              args |-> rest]
    ELSE IF ~hasValue /\ rest = <<>> THEN
        [fs |-> F, err |-> MkErr("error", "flag needs an argument", "", name), args |-> rest]
    ELSE
        LET v     == IF hasValue THEN value ELSE Head(rest)
            rest2 == IF hasValue THEN rest ELSE Tail(rest)
        IN
        IF SetOk(F[i].kind, v)
        THEN FlagParse(SetFlag(F, i, v), rest2)
        ELSE [fs |-> F, err |-> MkErr("error", "invalid value", "", name), args |-> rest2]

----------------------------------------------------------------------------
(* The flag scope resolver *)

RECURSIVE SplitLoop(_, _, _, _, _)
SplitLoop(F, args, flags, free, wantArg) ==
    IF args = <<>> THEN
        IF wantArg
        THEN [flags |-> <<>>, free |-> <<>>,
              err |-> MkErr("error", "missing value for flag", "", flags[Len(flags)])]
        ELSE [flags |-> flags, free |-> free, err |-> Nil]
    ELSE
    LET s == Head(args) IN
    IF wantArg THEN SplitLoop(F, Tail(args), Append(flags, s), free, FALSE)
    ELSE IF s = tDash \/ s = tDashDash THEN SplitLoop(F, Tail(args), flags, Append(free, s), FALSE)
    ELSE IF HasDashPrefix(s) THEN
        LET rest == TrimDash(Tail(s))
            cut  == CutEq(rest)
            i    == Lookup(F, cut.before)
        IN
        IF i # 0
        THEN SplitLoop(F, Tail(args), Append(flags, s), free, ~isBoolFlag(F[i]) /\ ~cut.found)
        ELSE SplitLoop(F, Tail(args), flags, Append(free, s), FALSE)
    ELSE SplitLoop(F, Tail(args), flags, Append(free, s), FALSE)

\* a resolver that does not see the bare dashes among the tokens
splitFlags_nodash(F, args) ==
    SplitLoop(F, SelectSeq(args, LAMBDA t : t # <<"-">>), <<>>, <<>>, FALSE)

\* a resolver that takes every flag of the scope for a Boolean one
splitFlags_noValue(F, args) ==
    SplitLoop([i \in 1..Len(F) |-> [F[i] EXCEPT !.kind = "bool"]], args, <<>>, <<>>, FALSE)

\* a resolver that reports no error
splitFlags_noError(F, args) ==
    [SplitLoop(F, args, <<>>, <<>>, FALSE) EXCEPT !.err = MkErr("nil", "", "", <<>>)]

\* a resolver that hands every token to both outputs
splitFlags_both(F, args) == [flags |-> args, free |-> args, err |-> Nil]

\* a resolver that claims nothing for the scope
splitFlags_nothing(F, args) == [flags |-> <<>>, free |-> args, err |-> Nil]

splitFlags(F, args) == SplitLoop(F, args, <<>>, <<>>, FALSE)

\* a join that separates the two lists by "--" when neither is empty
joinArgs_sep(a, b) == IF a # <<>> /\ b # <<>> THEN a \o <<tDashDash>> \o b ELSE a \o b

\* a join that puts the free tokens first
joinArgs_rev(a, b) == b \o a

joinArgs(a, b) == a \o b

----------------------------------------------------------------------------
(* Command trees.  A node is a C value: Decl is what its SetFlags hook     *)
(* declares when it is invoked, Run is "none" (nil), "user" (a function of *)
(* the caller) or "RunHelp".                                               *)

MkC(name, decl, run, init, custom, unlisted, commands) ==
    [Name |-> name, Decl |-> decl, HasSetFlags |-> decl # <<>>, Run |-> run,
     HasInit |-> init, CustomFlags |-> custom, Unlisted |-> unlisted,
     Commands |-> commands]

Str(name) == MkFlag(name, "string", FALSE, <<>>)
Bool(name) == MkFlag(name, "bool", FALSE, nFalse)

\* newTestRoot of the parse tests
ParseTree ==
    [root  |-> MkC(nRoot,  <<Str(nA)>>, "user", FALSE, FALSE, FALSE, <<"one", "three">>),
     one   |-> MkC(nOne,   <<Str(nB)>>, "user", FALSE, FALSE, FALSE, <<"two">>),
     two   |-> MkC(nTwo,   <<Str(nC)>>, "user", FALSE, FALSE, FALSE, <<"four">>),
     four  |-> MkC(nFour,  <<Str(nE)>>, "user", FALSE, FALSE, FALSE, <<>>),
     three |-> MkC(nThree, <<Str(nD)>>, "user", FALSE, FALSE, FALSE, <<>>)]

\* a tree of topic commands: app has an Init hook and no Run, grp and mid
\* are topics above the runnable leaf and grp has a SetFlags hook, cfg has
\* only an Init hook, notes has only the help topic faq below it
TopicTree ==
    [app   |-> MkC(nApp,   <<>>, "none", TRUE,  FALSE, FALSE, <<"grp", "cfg", "notes">>),
     grp   |-> MkC(nGrp,   <<Bool(nN)>>, "none", FALSE, FALSE, FALSE, <<"mid">>),
     mid   |-> MkC(nMid,   <<>>, "none", FALSE, FALSE, FALSE, <<"leaf">>),
     leaf  |-> MkC(nLeaf,  <<Bool(nH)>>, "user", TRUE, FALSE, FALSE, <<>>),
     cfg   |-> MkC(nCfg,   <<>>, "none", TRUE,  FALSE, FALSE, <<"show">>),
     show  |-> MkC(nShow,  <<>>, "user", FALSE, FALSE, FALSE, <<>>),
     notes |-> MkC(nNotes, <<>>, "none", FALSE, FALSE, FALSE, <<"faq">>),
     faq   |-> MkC(nFaq,   <<>>, "none", FALSE, FALSE, FALSE, <<>>)]

\* the tree of the package example: help is HelpCommand with two topics
ExampleTree ==
    [example |-> MkC(nExample,
                     <<Str(nLabel), MkFlag(nP, "int", TRUE, t0), Bool(nYy)>>,
                     "none", FALSE, FALSE, FALSE, <<"help", "echo", "secret">>),
     help    |-> MkC(nHelp,    <<>>, "RunHelp", FALSE, TRUE, FALSE, <<"special", "magic">>),
     special |-> MkC(nSpecial, <<>>, "none", FALSE, FALSE, FALSE, <<>>),
     magic   |-> MkC(nMagic,   <<>>, "none", FALSE, FALSE, FALSE, <<>>),
     echo    |-> MkC(nEcho,    <<Bool(nN)>>, "user", FALSE, FALSE, FALSE, <<>>),
     secret  |-> MkC(nSecret,  <<>>, "user", FALSE, FALSE, TRUE, <<>>)]

\* the commands of the MergeFlags documentation, where the subcommand also
\* defines a flag with the same name as its ancestor
ShadowTree ==
    [outer |-> MkC(nOne, <<Str(nA)>>, "user", FALSE, FALSE, FALSE, <<"inner">>),
     inner |-> MkC(nTwo, <<Str(nA), Str(nB)>>, "user", FALSE, FALSE, FALSE, <<>>)]

Trees == [parse |-> ParseTree, topic |-> TopicTree, example |-> ExampleTree,
          shadow |-> ShadowTree]

RootOf == [parse |-> "root", topic |-> "app", example |-> "example", shadow |-> "outer"]

Scenarios == DOMAIN Trees

Nodes == UNION {DOMAIN Trees[t] : t \in Scenarios}

\* the C value of node c ("" stands for the nil *C)
Cmd(c) == Trees[CHOOSE t \in Scenarios : c \in DOMAIN Trees[t]][c]

\* a command that counts as runnable only when it has a Run function
Runnable_runOnly(c) == c # "" /\ Cmd(c).Run # "none"

\* C.Runnable
Runnable(c) == c # "" /\ (Cmd(c).Run # "none" \/ Cmd(c).HasInit)

\* a check that looks at the direct subcommands only
HasRunnableSubcommands_direct(c) ==
    c # "" /\ \E i \in 1..Len(Cmd(c).Commands) : Runnable(Cmd(c).Commands[i])

\* C.HasRunnableSubcommands
RECURSIVE HasRunnableSubcommands(_)
HasRunnableSubcommands(c) ==
    c # "" /\ \E i \in 1..Len(Cmd(c).Commands) :
                 LET cmd == Cmd(c).Commands[i] IN
                 Runnable(cmd) \/ HasRunnableSubcommands(cmd)

\* a lookup that finds no subcommand
FindSubcommand_none(c, name) == ""

\* a lookup that finds the first subcommand whatever the name
FindSubcommand_first(c, name) == IF Cmd(c).Commands = <<>> THEN "" ELSE Cmd(c).Commands[1]

\* C.FindSubcommand
FindSubcommand(c, name) ==
    LET cs == Cmd(c).Commands IN
    IF \E i \in 1..Len(cs) : Cmd(cs[i]).Name = name
    THEN cs[CHOOSE i \in 1..Len(cs) :
                Cmd(cs[i]).Name = name /\ \A j \in 1..(i - 1) : Cmd(cs[j]).Name # name]
    ELSE ""

----------------------------------------------------------------------------
(* Env *)

\* C.NewEnv
NewEnv(c, config) ==
    [Parent |-> 0, Command |-> c, Config |-> config, Args |-> <<>>, Log |-> "",
     ctx |-> 0, cancel |-> 0, skipMerge |-> FALSE, hflag |-> {}]

\* a child Env made like the Env of a root, with the defaults of NewEnv
newChild_fresh(E, i, cmd, cargs) ==
    [NewEnv(cmd, "config") EXCEPT !.Parent = i, !.Args = cargs]

\* a child Env that falls back to the default merge option
newChild_merge(E, i, cmd, cargs) ==
    [E[i] EXCEPT !.Command = cmd, !.Parent = i, !.Args = cargs, !.skipMerge = FALSE]

\* a child Env that keeps the arguments of its parent, the name of its own
\* command included
newChild_same(E, i, cmd, cargs) ==
    [E[i] EXCEPT !.Command = cmd, !.Parent = i]

\* Env.newChild: a shallow copy of E[i] with Command, Parent and Args set
newChild(E, i, cmd, cargs) ==
    [E[i] EXCEPT !.Command = cmd, !.Parent = i, !.Args = cargs]

\* Env.Context called on E[i]: the handle it returns, 0 for a new background
\* context, which is never canceled
RECURSIVE Context(_, _)
Context(E, i) ==
    IF E[i].ctx # 0 THEN E[i].ctx
    ELSE IF E[i].Parent = 0 THEN 0
    ELSE Context(E, E[i].Parent)

\* a SetContext that stores the context and no cancel function
SetContext_ctxOnly(e, h) == [e EXCEPT !.ctx = h]

\* Env.SetContext(ctx) on the Env e: h is the handle WithCancelCause makes
\* for ctx, 0 when ctx is nil
SetContext(e, h) == [e EXCEPT !.ctx = h, !.cancel = h]

\* the handle Env.Cancel reaches from E[i]: its own, or the nearest one up
\* the parent chain, 0 when there is none
RECURSIVE CancelTarget(_, _)
CancelTarget(E, i) ==
    IF E[i].cancel # 0 THEN E[i].cancel
    ELSE IF E[i].Parent # 0 THEN CancelTarget(E, E[i].Parent)
    ELSE 0

\* context.Canceled, the cause recorded for a nil cause
Canceled == MkErr("error", "context canceled", "", <<>>)

\* an Env whose Cancel does nothing
Cancel_never(H, E, i, cause) == H

\* a cancel function that records the cause of every call, not of the first
Cancel_overwrite(H, E, i, cause) ==
    LET h == CancelTarget(E, i) IN
    IF h = 0 THEN H
    ELSE [H EXCEPT ![h] = [canceled |-> TRUE,
                           cause |-> IF cause = Nil THEN Canceled ELSE cause]]

\* Env.Cancel(cause) called on E[i]: the handles afterwards
Cancel(H, E, i, cause) ==
    LET h == CancelTarget(E, i) IN
    IF h = 0 \/ H[h].canceled THEN H
    ELSE [H EXCEPT ![h] = [canceled |-> TRUE,
                           cause |-> IF cause = Nil THEN Canceled ELSE cause]]

----------------------------------------------------------------------------
(* Help *)

\* C.hasFlagsDefined
hasFlagsDefined(FS, c, wantPrivate) ==
    ~Cmd(c).CustomFlags /\ \E i \in 1..Len(FS[c]) : ~FS[c][i].private \/ wantPrivate

\* the flags writeFlagHelp lists
ListedFlags(FS, c, wantPrivate) ==
    IF hasFlagsDefined(FS, c, wantPrivate)
    THEN {FS[c][i].name : i \in {j \in 1..Len(FS[c]) : ~FS[c][j].private \/ wantPrivate}}
    ELSE {}

\* C.HelpInfo(flags): the name, the listed flags, and the listed
\* subcommands and help topics
HelpInfo(FS, c, flags) ==
    LET cs     == Cmd(c).Commands
        listed == SelectSeq(cs, LAMBDA k : "IncludeCommands" \in flags
                                  /\ (~Cmd(k).Unlisted \/ "IncludeUnlisted" \in flags))
    IN
    [Name     |-> c,
     Flags    |-> ListedFlags(FS, c, "IncludePrivateFlags" \in flags),
     Commands |-> SelectSeq(listed, LAMBDA k : Runnable(k) \/ Len(Cmd(k).Commands) # 0),
     Topics   |-> SelectSeq(listed, LAMBDA k : ~(Runnable(k) \/ Len(Cmd(k).Commands) # 0))]

\* writeFlagHelp(w, fs, wantPrivate): the flag set afterwards.  With
\* wantPrivate the marker is cut from the usage text of the flag itself
writeFlagHelp(F, wantPrivate) ==
    IF wantPrivate THEN [i \in 1..Len(F) |-> [F[i] EXCEPT !.private = FALSE]] ELSE F

\* the commands C.HelpInfo(flags) of c asks for their HelpInfo in turn
HelpInfoOf(c, flags) ==
    {c} \cup {Cmd(c).Commands[k] : k \in {j \in 1..Len(Cmd(c).Commands) :
                  /\ "IncludeCommands" \in flags
                  /\ ~Cmd(Cmd(c).Commands[j]).Unlisted \/ "IncludeUnlisted" \in flags}}

\* the flag sets after C.HelpInfo(flags) of c
HelpInfoFlags(FS, c, flags) ==
    [n \in DOMAIN FS |->
        IF n \in HelpInfoOf(c, flags) /\ hasFlagsDefined(FS, n, "IncludePrivateFlags" \in flags)
        THEN writeFlagHelp(FS[n], "IncludePrivateFlags" \in flags)
        ELSE FS[n]]

\* no HelpInfo has been asked for
NoInfo == [Name |-> "", Flags |-> {}, Commands |-> <<>>, Topics |-> <<>>, asked |-> {}]

MkOut(kind, node, arg, flags, commands, topics) ==
    [kind |-> kind, node |-> node, arg |-> arg, flags |-> flags,
     commands |-> commands, topics |-> topics]

\* a long help that writes what the short help writes
printLongHelp_short(FS, c, topics) ==
    MkOut("short", c, <<>>, HelpInfo(FS, c, {}).Flags, <<>>, <<>>)

\* what printLongHelp(env, topics) writes, env.Command being c
printLongHelp(FS, c, topics) ==
    LET ht == HelpInfo(FS, c, {"IncludeCommands"}) IN
    MkOut("long", c, <<>>, ht.Flags, ht.Commands, ht.Topics \o topics)

\* a short help that writes what the long help writes
printShortHelp_long(FS, c) ==
    MkOut("long", c, <<>>, HelpInfo(FS, c, {"IncludeCommands"}).Flags,
          HelpInfo(FS, c, {"IncludeCommands"}).Commands, HelpInfo(FS, c, {"IncludeCommands"}).Topics)

\* what printShortHelp(env) writes
printShortHelp(FS, c) ==
    LET ht == HelpInfo(FS, c, {}) IN
    MkOut("short", c, <<>>, ht.Flags, <<>>, <<>>)

----------------------------------------------------------------------------
(* Inputs *)

\* the argument vectors of TestParse, and the one of the package documentation
ParseVectors ==
    {<<<<"x">>, <<"y">>>>,
     <<<<"-", "-", "n", "o", "n", "e", "s", "u", "c", "h">>, <<"x">>, <<"y">>>>,
     <<<<"-", "n", "o", "n", "e", "s", "u", "c", "h">>, <<"x">>>>,
     <<<<"-", "-", "A", "=", "1">>, <<"x">>, <<"y">>>>,
     <<<<"-", "A">>, <<"-">>, <<"x">>, <<"y">>>>,
     <<<<"-", "-", "A">>, <<"1">>, <<"x">>, <<"y">>>>,
     <<<<"x">>, <<"-", "A">>, <<"1">>, <<"y">>>>,
     <<<<"x">>, <<"y">>, <<"-", "A", "=", "1">>>>,
     <<<<"o", "n", "e">>, <<"x">>, <<"y">>>>,
     <<<<"o", "n", "e">>, <<"-", "B">>, <<"w">>, <<"x">>, <<"y">>>>,
     <<<<"o", "n", "e">>, <<"x">>, <<"y">>, <<"-", "B">>, <<"w">>>>,
     <<<<"o", "n", "e">>, <<"-", "B">>>>,
     <<<<"o", "n", "e">>, <<"t", "w", "o">>, <<"x">>, <<"y">>>>,
     <<<<"o", "n", "e">>, <<"t", "w", "o">>, <<"-", "C">>, <<"2">>, <<"-", "B">>, <<"1">>, <<"x">>, <<"y">>>>,
     <<<<"o", "n", "e">>, <<"t", "w", "o">>, <<"-", "C">>, <<"2">>, <<"-", "B">>, <<"-", "1">>, <<"x">>, <<"y">>>>,
     <<<<"-", "A">>, <<"1">>, <<"o", "n", "e">>, <<"-", "B">>, <<"2">>, <<"t", "w", "o">>, <<"-", "C">>, <<"3">>, <<"x">>, <<"y">>>>,
     <<<<"o", "n", "e">>, <<"t", "w", "o">>, <<"-", "C">>, <<"3">>, <<"x">>, <<"-", "-", "A", "=", "1">>, <<"-", "B">>, <<"2">>, <<"y">>>>,
     <<<<"-", "A">>, <<"-">>, <<"o", "n", "e">>, <<"-", "B">>, <<"-">>, <<"t", "w", "o">>, <<"x">>, <<"-", "C">>, <<"-">>, <<"y">>>>,
     <<<<"t", "h", "r", "e", "e">>, <<"-", "D">>, <<"4">>, <<"-", "C">>, <<"3">>>>,
     <<<<"t", "h", "r", "e", "e">>, <<"-", "D", "=", "1">>, <<"-", "o", "t", "h", "e", "r">>, <<"x">>, <<"y">>>>,
     <<<<"t", "h", "r", "e", "e">>, <<"-", "D", "=", "1">>, <<"-", "-">>, <<"-", "o", "t", "h", "e", "r">>, <<"x">>, <<"y">>>>,
     <<<<"o", "n", "e">>, <<"-", "A", "=", "4">>, <<"t", "w", "o">>, <<"-", "B", "=", "3">>, <<"-", "C", "=", "2">>, <<"f", "o", "u", "r">>, <<"x">>, <<"-", "-", "E">>, <<"1">>, <<"y">>>>,
     <<<<"o", "n", "e">>, <<"t", "w", "o">>, <<"f", "o", "u", "r">>, <<"x">>, <<"y">>, <<"-", "E", "=", "1">>, <<"-", "C">>, <<"2">>, <<"-", "-", "B", "=", "3">>, <<"-", "-", "A">>, <<"4">>>>,
     <<<<"-", "A">>, <<"1">>, <<"o", "n", "e">>, <<"t", "w", "o">>, <<"-", "Q">>, <<"?">>, <<"f", "o", "u", "r">>, <<"x">>, <<"y">>>>,
     <<<<"o", "n", "e">>, <<"t", "w", "o">>, <<"-", "C">>, <<"3">>, <<"-", "-", "A", "=", "1">>, <<"-", "B">>, <<"2">>, <<"x">>, <<"y">>>>}

\* the argument vectors of the package example, and two more help lookups
ExampleVectors ==
    {<<<<"h", "e", "l", "p">>>>,
     <<<<"h", "e", "l", "p">>, <<"s", "e", "c", "r", "e", "t">>>>,
     <<<<"s", "e", "c", "r", "e", "t">>, <<"-", "h", "e", "l", "p">>>>,
     <<<<"e", "c", "h", "o">>, <<"f", "o", "o">>, <<"b", "a", "r">>>>,
     <<<<"-", "l", "a", "b", "e", "l">>, <<"x", "y", "z", "z", "y">>, <<"e", "c", "h", "o">>, <<"b", "a", "r">>>>,
     <<<<"e", "c", "h", "o">>, <<"-", "l", "a", "b", "e", "l">>, <<"f", "o", "o">>, <<"b", "a", "r">>>>,
     <<<<"e", "c", "h", "o">>, <<"-", "p">>, <<"2", "5">>, <<"-", "l", "a", "b", "e", "l">>, <<"o", "k">>, <<"b", "a", "r">>>>,
     <<<<"s", "e", "c", "r", "e", "t">>, <<"f", "o", "r", "t">>>>,
     <<<<"e", "c", "h", "o">>, <<"-", "n">>, <<"b", "a", "z">>>>,
     <<<<"h", "e", "l", "p">>, <<"e", "c", "h", "o">>>>,
     <<<<"h", "e", "l", "p">>, <<"s", "p", "e", "c", "i", "a", "l">>>>}

\* argument vectors for the tree of topics
TopicVectors ==
    {<<<<"g", "r", "p">>>>,
     <<<<"g", "r", "p">>, <<"m", "i", "d">>>>,
     <<<<"g", "r", "p">>, <<"m", "i", "d">>, <<"l", "e", "a", "f">>, <<"x">>>>,
     <<<<"c", "f", "g">>>>,
     <<<<"c", "f", "g">>, <<"s", "h", "o", "w">>>>,
     <<<<"n", "o", "t", "e", "s">>>>,
     <<<<"n", "o", "t", "e", "s">>, <<"f", "a", "q">>>>,
     <<<<"x">>>>,
     <<<<"g", "r", "p">>, <<"m", "i", "d">>, <<"l", "e", "a", "f">>, <<"-", "h">>>>}

\* the argument lists of the MergeFlags documentation, and one that names the
\* shared flag on both sides of the subcommand
ShadowVectors ==
    {<<nTwo, F1(nB), <<"2">>, F1(nA), t1>>,
     <<F1(nA), t1, nTwo, F1(nB), <<"2">>>>,
     <<F1(nA), t1, nTwo, F1(nA), <<"2">>, tX>>}

Vectors == [parse |-> ParseVectors, topic |-> TopicVectors, example |-> ExampleVectors,
            shadow |-> ShadowVectors]

\* the tokens of the enumerated argument vectors
Alphabet ==
    [parse   |-> {nOne, nTwo, tX, t1, F1(nA), F2v(nB, t1), F1(nC), F2(nNonesuch), F2(nHelp),
                  tDashDash, tDash},
     topic   |-> {nGrp, nMid, nLeaf, nCfg, nShow, nNotes, nFaq, tX, F1(nH)},
     example |-> {nHelp, nEcho, nSecret, nSpecial, nBar, F1(nLabel), F1(nN), F1(nHelp)},
     shadow  |-> {nTwo, tX, t1, F1(nA), F2v(nA, t1), F1(nB)}]

SeqsUpTo(S, n) == UNION {[1..k -> S] : k \in 0..n}

\* the argument vectors of the runs that call Run several times on one tree
Repeated ==
    [parse   |-> {<<<<"x">>, <<"y">>>>,
                  <<<<"-", "A">>, <<"1">>, <<"x">>>>,
                  <<<<"o", "n", "e">>, <<"-", "B">>, <<"2">>>>,
                  <<<<"o", "n", "e">>, <<"t", "w", "o">>>>,
                  <<<<"-", "-", "n", "o", "n", "e", "s", "u", "c", "h">>, <<"x">>>>,
                  <<<<"o", "n", "e">>, <<"t", "w", "o">>, <<"-", "C">>, <<"3">>, <<"-", "-", "A", "=", "1">>, <<"-", "B">>, <<"2">>, <<"x">>, <<"y">>>>},
     topic   |-> {<<<<"g", "r", "p">>>>,
                  <<<<"g", "r", "p">>, <<"m", "i", "d">>, <<"l", "e", "a", "f">>, <<"x">>>>,
                  <<<<"c", "f", "g">>, <<"s", "h", "o", "w">>>>,
                  <<<<"n", "o", "t", "e", "s">>>>},
     example |-> {<<<<"h", "e", "l", "p">>>>,
                  <<<<"h", "e", "l", "p">>, <<"s", "e", "c", "r", "e", "t">>>>,
                  <<<<"h", "e", "l", "p">>, <<"e", "c", "h", "o">>>>,
                  <<<<"s", "e", "c", "r", "e", "t">>, <<"-", "h", "e", "l", "p">>>>,
                  <<<<"-", "l", "a", "b", "e", "l">>, <<"x", "y", "z", "z", "y">>, <<"e", "c", "h", "o">>, <<"b", "a", "r">>>>,
                  <<<<"e", "c", "h", "o">>, <<"-", "p">>, <<"2", "5">>, <<"-", "l", "a", "b", "e", "l">>, <<"o", "k">>, <<"b", "a", "r">>>>,
                  <<<<"s", "e", "c", "r", "e", "t">>, <<"f", "o", "r", "t">>>>,
                  <<<<"e", "c", "h", "o">>, <<"-", "n">>, <<"b", "a", "z">>>>},
     shadow  |-> {<<<<"t", "w", "o">>, <<"-", "A">>, <<"1">>>>,
                  <<<<"t", "w", "o">>, <<"-", "B">>, <<"2">>>>,
                  <<<<"t", "w", "o">>>>}]

\* "single": one top-level Run, on an enumerated argument vector or one of
\* the vectors above; "repeat": several top-level Runs on the same tree
Families == {"single", "repeat"}

\* the argument vectors a top-level Run may be given
Inputs(sc) ==
    IF sc.family = "single"
    THEN SeqsUpTo(Alphabet[sc.tree], MaxLen) \cup Vectors[sc.tree]
    ELSE Repeated[sc.tree]

\* the number of top-level Run calls made on the tree
CallLimit(sc) == IF sc.family = "single" THEN 1 ELSE MaxCalls

\* the values a hook may panic with, and the errors a hook may return
PanicValues == {<<"b", "o", "o", "m">>, <<"o", "m", "g">>}
HookErrors  == {MkErr("error", "hook failed", "", <<"e", "1">>),
                MkErr("error", "hook failed", "", <<"e", "2">>)}

----------------------------------------------------------------------------
(* The traversal.  A top-level Run and the Run calls nested in it form a   *)
(* chain of frames, one per Env of envs; frame cur is executing and pc is  *)
(* its position: "setFlags", "parse", "init", "route", "exec", and         *)
(* "unwind" when it returns and its deferred function runs.                *)

cmd == envs[cur].Command

\* PanicError{env: env, value: x} as built by the deferred function of frame i
\* a PanicError that carries the Env of the outermost frame
PanicError_root(E, i, x) == [MkErr("PanicError", "panicked", E[1].Command, x) EXCEPT !.env = 1]

PanicError(E, i, x) == [MkErr("PanicError", "panicked", E[i].Command, x) EXCEPT !.env = i]

Last(q) == q[Len(q)]

\* the locals of Env.parseFlags: its flag set F and arguments A, whether
\* splitFlags was called and its results sp, and toParse
NoSplit ==
    [parsed |-> FALSE, scope |-> <<>>, args |-> <<>>, merged |-> FALSE,
     flags |-> <<>>, free |-> <<>>, err |-> Nil, toParse |-> <<>>]
MkSplit(F, A, merged, sp, toParse) ==
    [parsed |-> TRUE, scope |-> F, args |-> A, merged |-> merged,
     flags |-> IF merged THEN sp.flags ELSE <<>>,
     free |-> IF merged THEN sp.free ELSE <<>>,
     err |-> IF merged THEN sp.err ELSE Nil, toParse |-> toParse]

\* Env.Usagef(msg) called on the Env of frame i
Usagef(i, msg) == [MkErr("UsageError", "usage", "", msg) EXCEPT !.env = i]

\* RunOrFail has not been entered; the outcome of RunOrFail with its exit
\* status (0 when it returns), what it logged, and the frame of the Env
\* whose usage it wrote (0 for none)
NoExit == [status |-> -1, log |-> <<>>, usage |-> 0]
MkExit(status, log, usage) == [status |-> status, log |-> log, usage |-> usage]

\* a wrapper that exits with status 1 on every error
Fail_one(e) == IF e = Nil THEN MkExit(0, <<>>, 0) ELSE MkExit(1, <<"Error">>, 0)

\* what RunOrFail does with the error e of Run
Fail(e) ==
    IF e = Nil THEN MkExit(0, <<>>, 0)
    ELSE IF e.type = "UsageError" THEN MkExit(2, <<"Error">>, e.env)
    ELSE IF e # ErrRequestHelp
    THEN MkExit(1, IF e.type = "PanicError" THEN <<"Error", "Stack">> ELSE <<"Error">>, 0)
    ELSE MkExit(2, <<>>, 0)

\* no panic, and the panic with value x raised in frame i by hook of owner
NoPanic == [active |-> FALSE, value |-> <<>>, frame |-> 0, node |-> "", hook |-> "", owner |-> ""]
Throw(E, i, hook, owner, x) ==
    [active |-> TRUE, value |-> x, frame |-> i, node |-> E[i].Command, hook |-> hook, owner |-> owner]

\* a hook invocation: the hook, its command, env.Args and the frame of the
\* Env it was given, and the error it returned (Nil when it returned nil, or
\* returns nothing, or panicked)
\* a hook invocation that is handed no arguments
MkHook_noargs(hook, node, args, env, ret) ==
    [hook |-> hook, node |-> node, args |-> <<>>, env |-> env, ret |-> ret]

\* a hook invocation recorded for the root frame wherever it happens
MkHook_root(hook, node, args, env, ret) ==
    [hook |-> hook, node |-> node, args |-> args, env |-> 1, ret |-> ret]

MkHook(hook, node, args, env, ret) ==
    [hook |-> hook, node |-> node, args |-> args, env |-> env, ret |-> ret]

\* a Run function that wraps the error of the Init hook in nothing
InitError_bare(c, e) == e

\* fmt.Errorf("initializing %q: %v", cmd.Name, err)
InitError(c, e) == MkErr("error", "initializing", c, e.val)

Init ==
    /\ scen \in [tree : Scenarios, family : Families]
    /\ \E own \in BOOLEAN :
        /\ scen.family = "single" => ~own
        /\ envs = <<SetContext(NewEnv(RootOf[scen.tree], "config"), IF own THEN 1 ELSE 0)>>
        /\ handles = IF own THEN <<[canceled |-> FALSE, cause |-> Nil]>> ELSE <<>>
    /\ isFlagSet = [n \in Nodes |-> FALSE]
    /\ fs = [n \in Nodes |-> <<>>]
    /\ setFlagsCalls = [n \in Nodes |-> 0]
    /\ cur = 0
    /\ pc = "idle"
    /\ err = Nil
    /\ out = <<>>
    /\ hooks = <<>>
    /\ rawArgs = <<>>
    /\ calls = 0
    /\ split = NoSplit
    /\ panic = NoPanic
    /\ exit = NoExit
    /\ info = NoInfo

\* a caller sets the merge option of the root Env and calls Run(env, args):
\* Run stores the arguments in the Env
Call ==
    /\ pc \in {"idle", "done"}
    /\ calls < CallLimit(scen)
    /\ \E args \in Inputs(scen), merge \in BOOLEAN :
        /\ envs' = <<[envs[1] EXCEPT !.Args = args, !.skipMerge = ~merge]>>
        /\ rawArgs' = args
    /\ cur' = 1
    /\ pc' = "setFlags"
    /\ err' = Nil
    /\ out' = <<>>
    /\ hooks' = <<>>
    /\ calls' = calls + 1
    /\ split' = NoSplit
    /\ panic' = NoPanic
    /\ exit' = NoExit
    /\ UNCHANGED <<scen, isFlagSet, fs, setFlagsCalls, handles, info>>

\* C.setFlags as Run calls it; the hook declares its flags or panics
setFlags ==
    /\ pc = "setFlags"
    /\ IF Cmd(cmd).HasSetFlags /\ ~isFlagSet[cmd]
       THEN /\ setFlagsCalls' = [setFlagsCalls EXCEPT ![cmd] = @ + 1]
            /\ hooks' = Append(hooks, MkHook("SetFlags", cmd, envs[cur].Args, cur, Nil))
            /\ \/ /\ fs' = [fs EXCEPT ![cmd] = @ \o Cmd(cmd).Decl]
                  /\ isFlagSet' = [isFlagSet EXCEPT ![cmd] = TRUE]
                  /\ pc' = "parse"
                  /\ panic' = panic
               \/ /\ \E x \in PanicValues : panic' = Throw(envs, cur, "SetFlags", cmd, x)
                  /\ pc' = "unwind"
                  /\ UNCHANGED <<fs, isFlagSet>>
       ELSE /\ pc' = "parse"
            /\ UNCHANGED <<setFlagsCalls, hooks, fs, isFlagSet, panic>>
    /\ UNCHANGED <<scen, envs, cur, err, out, handles, rawArgs, calls, split, exit, info>>

\* a parseFlags that reports no error and goes on after it has printed help
parseFlags_goesOn(e, F) ==
    LET r == FlagParse(F, e.Args) IN
    [fs |-> r.fs, err |-> Nil, args |-> r.args, help |-> r.err = FlagErrHelp,
     split |-> NoSplit]

\* Env.parseFlags(rawArgs) for the Env e and flag set F of its command: the
\* flag set afterwards, the error returned, the new e.Args, and whether long
\* help was printed
parseFlags(e, F) ==
    IF Cmd(e.Command).CustomFlags
    THEN [fs |-> F, err |-> Nil, args |-> e.Args, help |-> FALSE, split |-> NoSplit]
    ELSE
    LET sp == splitFlags(F, e.Args) IN
    IF ~e.skipMerge /\ sp.err # Nil
    THEN [fs |-> F, err |-> sp.err, args |-> e.Args, help |-> FALSE,
          split |-> MkSplit(F, e.Args, TRUE, sp, <<>>)]
    ELSE
    LET toParse == IF e.skipMerge THEN e.Args ELSE joinArgs(sp.flags, sp.free)
        r       == FlagParse(F, toParse)
        loc     == MkSplit(F, e.Args, ~e.skipMerge, sp, toParse)
    IN
    IF r.err = FlagErrHelp
    THEN [fs |-> r.fs, err |-> ErrRequestHelp, args |-> e.Args, help |-> TRUE, split |-> loc]
    ELSE IF r.err # Nil
    THEN [fs |-> r.fs, err |-> r.err, args |-> e.Args, help |-> FALSE, split |-> loc]
    ELSE [fs |-> r.fs, err |-> Nil, args |-> r.args, help |-> FALSE, split |-> loc]

\* Run parses the flags and returns the error if there is one
ParseFlags ==
    /\ pc = "parse"
    /\ LET r == parseFlags(envs[cur], fs[cmd]) IN
        /\ fs' = [fs EXCEPT ![cmd] = r.fs]
        /\ envs' = [envs EXCEPT ![cur].Args = r.args]
        /\ out' = IF r.help THEN Append(out, printLongHelp(fs, cmd, <<>>)) ELSE out
        /\ err' = r.err
        /\ pc' = IF r.err = Nil THEN "init" ELSE "unwind"
        /\ split' = r.split
    /\ UNCHANGED <<scen, isFlagSet, setFlagsCalls, cur, handles, hooks, rawArgs, calls, panic, exit, info>>

\* Run calls the Init hook, which returns nil or an error, or panics; a
\* hook that returns nil may have canceled the context of its Env
InitHook ==
    /\ pc = "init"
    /\ IF Cmd(cmd).HasInit
       THEN \/ /\ hooks' = Append(hooks, MkHook("Init", cmd, envs[cur].Args, cur, Nil))
               /\ pc' = "route"
               /\ handles' \in {handles, Cancel(handles, envs, cur, Nil)}
               /\ UNCHANGED <<err, panic>>
            \/ /\ \E e \in HookErrors \cup {Usagef(cur, tX)} :
                    /\ hooks' = Append(hooks, MkHook("Init", cmd, envs[cur].Args, cur, e))
                    /\ err' = InitError(cmd, e)
               /\ pc' = "unwind"
               /\ UNCHANGED <<panic, handles>>
            \/ /\ hooks' = Append(hooks, MkHook("Init", cmd, envs[cur].Args, cur, Nil))
               /\ \E x \in PanicValues : panic' = Throw(envs, cur, "Init", cmd, x)
               /\ pc' = "unwind"
               /\ UNCHANGED <<err, handles>>
       ELSE pc' = "route" /\ UNCHANGED <<hooks, err, panic, handles>>
    /\ UNCHANGED <<scen, isFlagSet, fs, setFlagsCalls, envs, cur, out, rawArgs, calls, split, exit, info>>

\* Run looks for a subcommand named by the first unclaimed argument
Route ==
    /\ pc = "route"
    /\ LET args   == envs[cur].Args
           sub    == IF args # <<>> THEN FindSubcommand(cmd, args[1]) ELSE ""
           rest   == IF args # <<>> THEN Tail(args) ELSE <<>>
           hasSub == HasRunnableSubcommands(sub)
       IN
       IF args # <<>> /\ (Runnable(sub) \/ (hasSub /\ rest # <<>>))
       THEN /\ envs' = Append(envs, newChild(envs, cur, sub, rest))
            /\ cur' = cur + 1
            /\ pc' = "setFlags"
            /\ UNCHANGED <<out, err>>
       ELSE IF args # <<>> /\ hasSub /\ rest = <<>>
       THEN /\ out' = Append(out, printLongHelp(fs, sub, <<>>))
            /\ err' = ErrRequestHelp
            /\ pc' = "unwind"
            /\ UNCHANGED <<envs, cur>>
       ELSE IF args # <<>> /\ Cmd(cmd).Run = "none"
       THEN /\ out' = Append(out, MkOut("notunderstood", cmd, <<args[1]>>, {}, <<>>, <<>>))
            /\ err' = ErrRequestHelp
            /\ pc' = "unwind"
            /\ UNCHANGED <<envs, cur>>
       ELSE /\ pc' = "exec"
            /\ UNCHANGED <<envs, cur, out, err>>
    /\ UNCHANGED <<scen, isFlagSet, fs, setFlagsCalls, handles, hooks, rawArgs, calls, split, panic, exit, info>>

\* the command has no Run function: Run prints the short help
NoAction ==
    /\ pc = "exec"
    /\ Cmd(cmd).Run = "none"
    /\ out' = Append(out, printShortHelp(fs, cmd))
    /\ err' = ErrRequestHelp
    /\ pc' = "unwind"
    /\ UNCHANGED <<scen, isFlagSet, fs, setFlagsCalls, envs, cur, handles, hooks, rawArgs, calls, split, panic, exit, info>>

\* Run calls the Run function of the command, which returns nil or an
\* error, or panics
RunAction ==
    /\ pc = "exec"
    /\ Cmd(cmd).Run = "user"
    /\ \/ /\ \E e \in {Nil} \cup HookErrors \cup {Usagef(cur, tX)} :
                /\ hooks' = Append(hooks, MkHook("Run", cmd, envs[cur].Args, cur, e))
                /\ err' = e
          /\ panic' = panic
       \/ /\ hooks' = Append(hooks, MkHook("Run", cmd, envs[cur].Args, cur, Nil))
          /\ \E x \in PanicValues : panic' = Throw(envs, cur, "Run", cmd, x)
          /\ err' = err
    /\ pc' = "unwind"
    /\ UNCHANGED <<scen, isFlagSet, fs, setFlagsCalls, envs, cur, out, handles, rawArgs, calls, split, exit, info>>

\* the results of walkArgs: the command of the Env found ("" for nil), the
\* guards afterwards, the nodes whose SetFlags hook was invoked, and whether
\* one panicked
MkWalk(target, G, invoked, panicked) ==
    [target |-> target, guard |-> G, invoked |-> invoked, panicked |-> panicked]

WalkInvoked(next, r) == [r EXCEPT !.invoked = <<next>> \o r.invoked]

\* walkArgs(env, args), env.Command being c, with the guards G; the SetFlags
\* hooks of the nodes of pan panic.  walkStep is one turn of its loop, next
\* being the subcommand found for the first argument
RECURSIVE walkArgs(_, _, _, _)
\* a turn of the loop that does not look at Unlisted
walkStep_listed(next, args, G, pan) ==
    IF next = "" THEN MkWalk("", G, <<>>, FALSE)
    ELSE IF Cmd(next).HasSetFlags /\ ~G[next] THEN
        IF next \in pan
        THEN MkWalk("", G, <<next>>, TRUE)
        ELSE WalkInvoked(next, walkArgs(next, Tail(args), [G EXCEPT ![next] = TRUE], pan))
    ELSE walkArgs(next, Tail(args), G, pan)

walkStep(next, args, G, pan) ==
    IF next = "" THEN MkWalk("", G, <<>>, FALSE)
    ELSE IF Cmd(next).Unlisted THEN MkWalk("", G, <<>>, FALSE)
    ELSE IF Cmd(next).HasSetFlags /\ ~G[next] THEN
        IF next \in pan
        THEN MkWalk("", G, <<next>>, TRUE)
        ELSE WalkInvoked(next, walkArgs(next, Tail(args), [G EXCEPT ![next] = TRUE], pan))
    ELSE walkArgs(next, Tail(args), G, pan)

walkArgs(c, args, G, pan) ==
    IF args = <<>> THEN MkWalk(c, G, <<>>, FALSE)
    ELSE walkStep(FindSubcommand(c, Head(args)), args, G, pan)

\* the number of times n occurs in the sequence q
Count(q, n) == Cardinality({i \in 1..Len(q) : q[i] = n})

\* the flag sets after the SetFlags hooks of walkArgs ran: G are the guards
\* before and G2 the guards after
Declared(FS, G, G2) ==
    [n \in Nodes |-> IF G2[n] /\ ~G[n] THEN FS[n] \o Cmd(n).Decl ELSE FS[n]]

MkHelped(w, FS, invoked, outs) ==
    [guard |-> w.guard, fs |-> FS, invoked |-> invoked, panicked |-> w.panicked, out |-> outs]

\* the end of RunHelp: w1 is the walk from the parent, w2 the walk from the
\* help command itself, FS2 the flag sets after both
runHelpTopic(help, args, w1, w2, FS2) ==
    MkHelped(w2, FS2, w1.invoked \o w2.invoked,
             IF w2.panicked THEN <<>>
             ELSE IF w2.target # "" THEN <<printLongHelp(FS2, w2.target, <<>>)>>
             ELSE <<MkOut("unknowntopic", help, args, {}, <<>>, <<>>)>>)

\* RunHelp after the walk w1 from the parent; FS1 are the flag sets after it
runHelpWalked(help, parent, args, G, FS, pan, w1, FS1) ==
    IF w1.panicked THEN MkHelped(w1, FS1, w1.invoked, <<>>)
    ELSE IF args = <<>>
    THEN MkHelped(w1, FS1, w1.invoked,
                  <<printLongHelp(FS1, parent, HelpInfo(FS1, help, {"IncludeCommands"}).Topics)>>)
    ELSE IF w1.target # ""
    THEN MkHelped(w1, FS1, w1.invoked, <<printLongHelp(FS1, w1.target, <<>>)>>)
    ELSE runHelpTopic(help, args, w1, walkArgs(help, args, w1.guard, pan),
                      Declared(FS, G, walkArgs(help, args, w1.guard, pan).guard))

\* RunHelp(env) for env = E[i], with the guards G and the flag sets FS; the
\* SetFlags hooks of the nodes of pan panic.  The result: the guards and
\* flag sets afterwards, the nodes whose SetFlags hook was invoked, whether
\* one panicked, and what was written
runHelp(E, i, G, FS, pan) ==
    runHelpWalked(E[i].Command, E[E[i].Parent].Command, E[i].Args, G, FS, pan,
                  walkArgs(E[E[i].Parent].Command, E[i].Args, G, pan),
                  Declared(FS, G, walkArgs(E[E[i].Parent].Command, E[i].Args, G, pan).guard))

\* the effect of RunHelp, r being its result
RunHelpDone(r) ==
    /\ isFlagSet' = r.guard
    /\ fs' = r.fs
    /\ setFlagsCalls' = [n \in Nodes |-> setFlagsCalls[n] + Count(r.invoked, n)]
    /\ hooks' = Append(hooks, MkHook("Run", cmd, envs[cur].Args, cur,
                                     IF r.panicked THEN Nil ELSE ErrRequestHelp))
                  \o [k \in 1..Len(r.invoked) |-> MkHook("SetFlags", r.invoked[k], <<>>, 0, Nil)]
    /\ out' = out \o r.out
    /\ IF r.panicked
       THEN /\ \E x \in PanicValues : panic' = Throw(envs, cur, "SetFlags", Last(r.invoked), x)
            /\ err' = err
       ELSE err' = ErrRequestHelp /\ panic' = panic

\* Run calls RunHelp, the Run function of the help command; a SetFlags hook
\* that RunHelp invokes may panic
RunHelp ==
    /\ pc = "exec"
    /\ Cmd(cmd).Run = "RunHelp"
    /\ \E pan \in {{}} \cup {{n} : n \in DOMAIN Trees[scen.tree]} :
        /\ pan # {} => runHelp(envs, cur, isFlagSet, fs, pan).panicked
        /\ RunHelpDone(runHelp(envs, cur, isFlagSet, fs, pan))
    /\ pc' = "unwind"
    /\ UNCHANGED <<scen, envs, cur, handles, rawArgs, calls, split, exit, info>>

\* a frame that makes a new PanicError of a PanicError it is handed
Recovered_rewrap(E, i, p, e) ==
    IF p.active THEN PanicError(E, i, p.value)
    ELSE IF e.type = "PanicError" THEN PanicError(E, i, e.val)
    ELSE e

\* a frame that returns nil unless it recovers a panic
Recovered_nil(E, i, p, e) == IF p.active THEN PanicError(E, i, p.value) ELSE Nil

\* the error frame i returns: its deferred function recovers a panic
\* that is propagating and makes a PanicError of it
Recovered(E, i, p, e) == IF p.active THEN PanicError(E, i, p.value) ELSE e

\* the deferred function of frame cur recovers the panic, if there is one,
\* and cancels the context with the error being returned; the frame then
\* returns to its caller
Unwind ==
    /\ pc = "unwind"
    /\ err' = Recovered(envs, cur, panic, err)
    /\ panic' = [panic EXCEPT !.active = FALSE]
    /\ handles' = Cancel(handles, envs, cur, Recovered(envs, cur, panic, err))
    /\ IF cur > 1
       THEN cur' = cur - 1 /\ pc' = "unwind"
       ELSE cur' = cur /\ pc' = "done"
    /\ UNCHANGED <<scen, isFlagSet, fs, setFlagsCalls, envs, out, hooks, rawArgs, calls, split, exit, info>>

\* the caller had called Run through RunOrFail, which logs the error and
\* ends the process, or returns when there is none
RunOrFail ==
    /\ pc = "done"
    /\ exit = NoExit
    /\ exit' = Fail(err)
    /\ pc' = IF err = Nil THEN "done" ELSE "exited"
    /\ UNCHANGED <<scen, isFlagSet, fs, setFlagsCalls, envs, cur, err, out, handles,
                   hooks, rawArgs, calls, split, panic, info>>

Next ==
    \/ Call
    \/ setFlags
    \/ ParseFlags
    \/ InitHook
    \/ Route
    \/ NoAction
    \/ RunAction
    \/ RunHelp
    \/ Unwind
    \/ RunOrFail

Spec == Init /\ [][Next]_vars

\* between two Run calls the caller asks a command of the tree that has
\* flags for its HelpInfo
CallHelpInfo ==
    /\ pc \in {"idle", "done"}
    /\ \E c \in {n \in DOMAIN Trees[scen.tree] : fs[n] # <<>>},
          flags \in SUBSET {"IncludeCommands", "IncludePrivateFlags"} :
          /\ info' = [Name |-> c, Flags |-> HelpInfo(fs, c, flags).Flags,
                      Commands |-> HelpInfo(fs, c, flags).Commands,
                      Topics |-> HelpInfo(fs, c, flags).Topics, asked |-> flags]
          /\ fs' = HelpInfoFlags(fs, c, flags)
    /\ UNCHANGED <<scen, isFlagSet, setFlagsCalls, envs, cur, pc, err, out, handles, hooks,
                   rawArgs, calls, split, panic, exit>>

\* the tree of the package example, with Run calls and HelpInfo calls
InitInfo == Init /\ scen.tree = "example"

NextInfo == Next \/ CallHelpInfo

SpecInfo == InitInfo /\ [][NextInfo]_vars

\* a Run call that has been started goes on: the frame that is executing
\* leaves the position it is at, for the next position, for a new frame or
\* for its caller
Proceeds ==
    /\ pc \in {"setFlags", "parse", "init", "route", "exec", "unwind"}
    /\ pc' \in {"setFlags", "parse", "init", "route", "exec", "unwind", "done"}
    /\ cur' \in {cur - 1, cur, cur + 1}

\* Run is sequential code, its loops run over the finite argument list and
\* its hooks return or panic: a call does not stay at one position for ever
SpecLive == Init /\ [][Next]_vars /\ WF_<<pc, cur>>(Proceeds)

----------------------------------------------------------------------------
(* Init hooks that change their Env.  The hook of the second specification *)
(* calls one of SetContext (with a context of its own making, or nil),     *)
(* MergeFlags, or assigns Config or Log, and returns nil.                  *)

MaxHandles == 3

EnvEdits == {"SetContext", "ClearContext", "MergeFlags", "NoMergeFlags", "Config", "Log"}

\* the Env e after the edit; h is the handle a SetContext would make
EditEnv(e, edit, h) ==
    CASE edit = "SetContext"   -> SetContext(e, h)
      [] edit = "ClearContext" -> SetContext(e, 0)
      [] edit = "MergeFlags"   -> [e EXCEPT !.skipMerge = FALSE]
      [] edit = "NoMergeFlags" -> [e EXCEPT !.skipMerge = TRUE]
      [] edit = "Config"       -> [e EXCEPT !.Config = "config2"]
      [] edit = "Log"          -> [e EXCEPT !.Log = "log2"]

\* an Init hook whose change lands in the Env of the parent
InitHookSets_up ==
    /\ pc = "init"
    /\ Cmd(cmd).HasInit
    /\ \E edit \in EnvEdits :
        /\ edit = "SetContext" => Len(handles) < MaxHandles
        /\ envs' = [envs EXCEPT ![IF cur > 1 THEN cur - 1 ELSE cur] =
                                     EditEnv(@, edit, Len(handles) + 1)]
        /\ handles' = IF edit = "SetContext"
                      THEN Append(handles, [canceled |-> FALSE, cause |-> Nil])
                      ELSE handles
    /\ hooks' = Append(hooks, MkHook("Init", cmd, envs[cur].Args, cur, Nil))
    /\ pc' = "route"
    /\ UNCHANGED <<scen, isFlagSet, fs, setFlagsCalls, cur, err, out, rawArgs, calls, split,
                   panic, exit, info>>

\* Run calls an Init hook that changes its Env and returns nil
InitHookSets ==
    /\ pc = "init"
    /\ Cmd(cmd).HasInit
    /\ \E edit \in EnvEdits :
        /\ edit = "SetContext" => Len(handles) < MaxHandles
        /\ envs' = [envs EXCEPT ![cur] = EditEnv(@, edit, Len(handles) + 1)]
        /\ handles' = IF edit = "SetContext"
                      THEN Append(handles, [canceled |-> FALSE, cause |-> Nil])
                      ELSE handles
    /\ hooks' = Append(hooks, MkHook("Init", cmd, envs[cur].Args, cur, Nil))
    /\ pc' = "route"
    /\ UNCHANGED <<scen, isFlagSet, fs, setFlagsCalls, cur, err, out, rawArgs, calls, split,
                   panic, exit, info>>

NextEnv == Next \/ InitHookSets

SpecEnv == Init /\ [][NextEnv]_vars

----------------------------------------------------------------------------
(* Two top-level Run calls on one tree, each in a goroutine of its own.    *)
(* The tree is shared: isFlagSet, fs and setFlagsCalls are as above.  envs *)
(* holds the Env of the frame each call is executing and pc its position:  *)
(* in C.setFlags "setFlags" is before the test of the guard, "hook" after  *)
(* a test that found the hook due, "mark" after the hook has returned and  *)
(* before the guard is set; "rest" stands for the rest of the frame.  The  *)
(* hooks return without panicking.                                         *)

\* the two calls
Procs == {1, 2}

\* the calls overlap freely, or the second starts when the first is over
Schedules == {"concurrent", "sequenced"}

\* the argument vectors of the calls
ConcInputs == {<<>>, <<nOne>>, <<nOne, nTwo>>, <<F1(nA), t1, nOne>>}

\* a test that takes every SetFlags hook for due
setFlagsDue_unguarded(c, G) == Cmd(c).HasSetFlags

\* the test of C.setFlags, G being the guards it reads
setFlagsDue(c, G) == Cmd(c).HasSetFlags /\ ~G[c]

InitConc ==
    /\ scen \in [tree : {"parse"}, family : Schedules]
    /\ envs = [p \in Procs |-> NewEnv(RootOf[scen.tree], "config")]
    /\ pc = [p \in Procs |-> "idle"]
    /\ isFlagSet = [n \in Nodes |-> FALSE]
    /\ fs = [n \in Nodes |-> <<>>]
    /\ setFlagsCalls = [n \in Nodes |-> 0]
    /\ hooks = <<>>
    /\ rawArgs = [p \in Procs |-> <<>>]
    /\ calls = 0
    /\ cur = 0
    /\ err = Nil
    /\ out = <<>>
    /\ handles = <<>>
    /\ split = NoSplit
    /\ panic = NoPanic
    /\ exit = NoExit
    /\ info = NoInfo

\* a goroutine calls Run(env, args) with a root Env of its own
ConcCall(p) ==
    /\ pc[p] = "idle"
    /\ scen.family = "sequenced" => \A q \in Procs : q < p => pc[q] = "done"
    /\ \E args \in ConcInputs :
        /\ envs' = [envs EXCEPT ![p].Args = args]
        /\ rawArgs' = [rawArgs EXCEPT ![p] = args]
    /\ pc' = [pc EXCEPT ![p] = "setFlags"]
    /\ calls' = calls + 1
    /\ UNCHANGED <<scen, isFlagSet, fs, setFlagsCalls, cur, err, out, handles, hooks,
                   split, panic, exit, info>>

\* C.setFlags reads the guard
ConcTest(p) ==
    /\ pc[p] = "setFlags"
    /\ pc' = [pc EXCEPT ![p] = IF setFlagsDue(envs[p].Command, isFlagSet)
                                THEN "hook" ELSE "rest"]
    /\ UNCHANGED <<scen, isFlagSet, fs, setFlagsCalls, envs, cur, err, out, handles,
                   hooks, rawArgs, calls, split, panic, exit, info>>

\* C.setFlags calls the hook, which declares its flags in the flag set
ConcHook(p) ==
    /\ pc[p] = "hook"
    /\ setFlagsCalls' = [setFlagsCalls EXCEPT ![envs[p].Command] = @ + 1]
    /\ hooks' = Append(hooks, MkHook("SetFlags", envs[p].Command, envs[p].Args, p, Nil))
    /\ fs' = [fs EXCEPT ![envs[p].Command] = @ \o Cmd(envs[p].Command).Decl]
    /\ pc' = [pc EXCEPT ![p] = "mark"]
    /\ UNCHANGED <<scen, isFlagSet, envs, cur, err, out, handles, rawArgs, calls,
                   split, panic, exit, info>>

\* C.setFlags sets the guard
ConcMark(p) ==
    /\ pc[p] = "mark"
    /\ isFlagSet' = [isFlagSet EXCEPT ![envs[p].Command] = TRUE]
    /\ pc' = [pc EXCEPT ![p] = "rest"]
    /\ UNCHANGED <<scen, fs, setFlagsCalls, envs, cur, err, out, handles, hooks,
                   rawArgs, calls, split, panic, exit, info>>

\* the rest of the frame: Run parses the flags and either calls Run for
\* the subcommand the first argument names or comes to its end
ConcRest(p) ==
    /\ pc[p] = "rest"
    /\ LET c    == envs[p].Command
           r    == parseFlags(envs[p], fs[c])
           sub  == IF r.args # <<>> THEN FindSubcommand(c, r.args[1]) ELSE ""
           rest == IF r.args # <<>> THEN Tail(r.args) ELSE <<>>
       IN
       /\ fs' = [fs EXCEPT ![c] = r.fs]
       /\ IF /\ r.err = Nil
             /\ r.args # <<>>
             /\ Runnable(sub) \/ (HasRunnableSubcommands(sub) /\ rest # <<>>)
          THEN /\ envs' = [envs EXCEPT ![p] = newChild(envs, p, sub, rest)]
               /\ pc' = [pc EXCEPT ![p] = "setFlags"]
          ELSE /\ envs' = [envs EXCEPT ![p].Args = r.args]
               /\ pc' = [pc EXCEPT ![p] = "done"]
    /\ UNCHANGED <<scen, isFlagSet, setFlagsCalls, cur, err, out, handles, hooks,
                   rawArgs, calls, split, panic, exit, info>>

NextConc ==
    \E p \in Procs :
        \/ ConcCall(p)
        \/ ConcTest(p)
        \/ ConcHook(p)
        \/ ConcMark(p)
        \/ ConcRest(p)

SpecConc == InitConc /\ [][NextConc]_vars

----------------------------------------------------------------------------
(* Properties *)


\* the top-level Run has returned, or is returning
Returning == pc \in {"unwind", "done", "exited"}

\* the SetFlags hook of some command panicked in this Run
SetFlagsPanicked == panic.hook = "SetFlags"

\* the Run function that was called in this top-level Run, if one was
RunCalls == SelectSeq(hooks, LAMBDA h : h.hook = "Run")

(* C1.  A reading of an argument vector for the tree of the parse tests,    *)
(* written without the resolver: path is the path of commands named so     *)
(* far, bound the value given to the flag of each command, pos the          *)
(* positional tokens.  The vector is in the form the claim describes (ok)  *)
(* when every token is the name of a subcommand of the last command of the *)
(* path (before any positional token), a flag of a command on the path in  *)
(* the form -f v, --f v, -f=v or --f=v, or a positional token that does not *)
(* start with a dash; the value v of the forms -f v and --f v does not     *)
(* start with a dash either.                                                *)
C1Unbound == [set |-> FALSE, val |-> <<>>]

C1Start == [ok |-> TRUE, path |-> <<"root">>, pos |-> <<>>,
            bound |-> [n \in DOMAIN ParseTree |-> C1Unbound]]

C1Owner(path, name) == {n \in {path[i] : i \in 1..Len(path)} : Cmd(n).Decl[1].name = name}

C1Bind(st, n, v) == [st EXCEPT !.bound[n] = [set |-> TRUE, val |-> v]]

RECURSIVE C1Read(_, _)
C1ReadFlag(args, st, cut, owner) ==
    IF owner = {} THEN [st EXCEPT !.ok = FALSE]
    ELSE IF cut.found THEN C1Read(Tail(args), C1Bind(st, CHOOSE n \in owner : TRUE, cut.after))
    ELSE IF Len(args) < 2 \/ HasDashPrefix(args[2]) THEN [st EXCEPT !.ok = FALSE]
    ELSE C1Read(Tail(Tail(args)), C1Bind(st, CHOOSE n \in owner : TRUE, args[2]))

C1Read(args, st) ==
    IF args = <<>> THEN st
    ELSE IF HasDashPrefix(Head(args))
    THEN C1ReadFlag(args, st, CutEq(TrimDash(Tail(Head(args)))),
                    C1Owner(st.path, CutEq(TrimDash(Tail(Head(args)))).before))
    ELSE IF st.pos = <<>> /\ FindSubcommand(Last(st.path), Head(args)) # ""
    THEN C1Read(Tail(args),
                [st EXCEPT !.path = Append(@, FindSubcommand(Last(st.path), Head(args)))])
    ELSE C1Read(Tail(args), [st EXCEPT !.pos = Append(@, Head(args))])

C1Expect == C1Read(rawArgs, C1Start)

\* C1: under merge mode, an argument vector of that form runs the action of
\* the last command named, with the positional tokens as its Args and each
\* flag given on the command line bound to its value
C1_MergedFlagsRouteAndBind ==
    (/\ scen.tree = "parse"
     /\ Returning
     /\ ~envs[1].skipMerge
     /\ C1Expect.ok
     /\ ~SetFlagsPanicked)
    => /\ Len(RunCalls) = 1
       /\ RunCalls[1].node = Last(C1Expect.path)
       /\ RunCalls[1].args = C1Expect.pos
       /\ \A n \in DOMAIN ParseTree :
            C1Expect.bound[n].set => fs[n][1].value = C1Expect.bound[n].val

\* the documented command line has run "two" with x y, A=1, B=2 and C=3
C1_Witness ==
    /\ scen.tree = "parse"
    /\ pc = "done"
    /\ ~envs[1].skipMerge
    /\ rawArgs = <<nOne, nTwo, F1(nC), t3, F2v(nA, t1), F1(nB), t2, tX, tY>>
    /\ err = Nil
    /\ RunCalls = <<MkHook("Run", "two", <<tX, tY>>, 3, Nil)>>
    /\ fs["root"][1].value = t1 /\ fs["one"][1].value = t2 /\ fs["two"][1].value = t3

\* C2: a panic of a SetFlags hook, an Init hook or a Run function, in a
\* frame of any depth, is recovered by that frame and does not reach the
\* caller: the top-level Run returns a PanicError whose value is the value of
\* the panic and whose Env is the Env of the frame that was running, the Env
\* of the command whose hook panicked or, for a SetFlags hook invoked by a
\* help lookup, of the help command
C2_PanicBecomesPanicError ==
    /\ panic.active => pc = "unwind" /\ cur = panic.frame
    /\ (pc = "done" /\ panic.hook # "") =>
          /\ ~panic.active
          /\ err.type = "PanicError"
          /\ err.val = panic.value
          /\ err.env = panic.frame
          /\ envs[err.env].Command = panic.node
          /\ err.node = panic.node
          /\ panic.hook \in {"Init", "Run"} => panic.owner = err.node
          /\ panic.hook = "SetFlags" =>
                panic.owner = err.node \/ Cmd(err.node).Run = "RunHelp"

\* a Run function two levels below the root has panicked and the top-level
\* Run has returned the PanicError
C2_Witness ==
    /\ pc = "done"
    /\ panic.hook = "Run"
    /\ panic.frame = 3
    /\ panic.value = <<"b", "o", "o", "m">>
    /\ err.type = "PanicError"
    /\ err.val = <<"b", "o", "o", "m">>
    /\ err.node = panic.owner

\* C3: the SetFlags hook of each command is invoked at most once over all
\* the top-level Run calls and help lookups made on the tree, whatever the
\* outcome of the earlier ones
C3_SetFlagsAtMostOnce == \A n \in Nodes : setFlagsCalls[n] <= 1

\* the SetFlags hook of the root panicked in the first Run and has been
\* invoked again by the second
C3_Witness ==
    /\ calls = 2
    /\ setFlagsCalls[RootOf[scen.tree]] = 2
    /\ isFlagSet[RootOf[scen.tree]]

(* What the claims call a directly actionable command, a child named by a  *)
(* token, and a command with an actionable descendant, read from the tree. *)
Actionable(c) == Cmd(c).Run # "none" \/ Cmd(c).HasInit

Children(c) == {Cmd(c).Commands[i] : i \in 1..Len(Cmd(c).Commands)}

NamedChildren(c, tok) == {d \in Children(c) : Cmd(d).Name = tok}

RECURSIVE Descendants(_)
Descendants(c) == Children(c) \cup UNION {Descendants(d) : d \in Children(c)}

HasActionableDescendant(c) == \E d \in Descendants(c) : Actionable(d)

\* frame cur is about to route, with unclaimed arguments
Routing == pc = "route" /\ envs[cur].Args # <<>>

\* the step calls Run for the child c with the arguments after its name
RecursesInto(c) ==
    /\ pc' = "setFlags"
    /\ cur' = cur + 1
    /\ Len(envs') = cur + 1
    /\ envs'[cur + 1].Command = c
    /\ envs'[cur + 1].Args = Tail(envs[cur].Args)
    /\ envs'[cur + 1].Parent = cur

\* C4: when arguments remain after Init and the first names a child c, Run
\* recurses into c with the arguments after the name exactly when c is
\* directly actionable, or has an actionable descendant and at least one
\* argument follows the name
C4_RecurseIffActionable ==
    [][\A c \in Nodes :
          (Routing /\ c \in NamedChildren(cmd, envs[cur].Args[1]))
          => (RecursesInto(c)
                <=> (Actionable(c)
                       \/ (HasActionableDescendant(c) /\ Len(envs[cur].Args) > 1)))]_vars

\* Run has recursed into a command that is not directly actionable, with
\* the argument that followed its name
C4_Witness ==
    /\ pc = "setFlags"
    /\ cur = 2
    /\ ~Actionable(cmd)
    /\ HasActionableDescendant(cmd)
    /\ envs[cur].Args # <<>>
    /\ envs[cur].Args = Tail(envs[1].Args)

\* C5: routing stops at the first directly actionable child that is named:
\* no Run is called for a child of it, its Run function is the one called,
\* and all the arguments after its name are its Args
C5_RoutingStopsAtFirstActionable ==
    \A k \in 2..Len(envs) :
        Actionable(envs[k].Command)
        => /\ Len(envs) = k
           /\ \A i \in 1..Len(hooks) :
                 hooks[i].hook = "Run"
                 => hooks[i].node = envs[k].Command /\ hooks[i].args = Tail(envs[k - 1].Args)

\* C5 as the code has it: a directly actionable child that is named is
\* itself routed, so a Run function is called only in the innermost frame
\* and only with Args that are empty or whose first element names no
\* directly actionable child of the command
C5_ActionOfDeepestNode ==
    \A i \in 1..Len(hooks) :
        hooks[i].hook = "Run"
        => /\ hooks[i].env = Len(envs)
           /\ hooks[i].node = envs[Len(envs)].Command
           /\ hooks[i].args = envs[Len(envs)].Args
           /\ hooks[i].args # <<>>
              => \A d \in NamedChildren(hooks[i].node, hooks[i].args[1]) : ~Actionable(d)

\* "one two x" has run "two", the child of the directly actionable "one",
\* with x
C5_Witness ==
    /\ scen.tree = "parse"
    /\ pc = "done"
    /\ rawArgs = <<nOne, nTwo, tX>>
    /\ Len(envs) = 3
    /\ Actionable(envs[2].Command)
    /\ RunCalls = <<MkHook("Run", "two", <<tX>>, 3, Nil)>>

\* the command reached from c by taking each argument as the name of a
\* subcommand, "" when an argument names none
RECURSIVE PathTo(_, _)
PathTo(c, args) ==
    IF args = <<>> THEN c
    ELSE IF NamedChildren(c, Head(args)) = {} THEN ""
    ELSE PathTo(CHOOSE d \in NamedChildren(c, Head(args)) : TRUE, Tail(args))

\* the command named by the last argument of a command line made of names
Target == IF rawArgs = <<>> THEN "" ELSE PathTo(RootOf[scen.tree], rawArgs)

\* no hook of this top-level Run has panicked or returned an error
HooksSucceeded == panic.hook = "" /\ \A i \in 1..Len(hooks) : hooks[i].ret \in {Nil, ErrRequestHelp}

\* Run has returned ErrRequestHelp after writing the long help of c and
\* nothing else, and has called no Run function
LongHelpOf(c) ==
    /\ err = ErrRequestHelp
    /\ Len(out) = 1
    /\ out[1].kind = "long"
    /\ out[1].node = c
    /\ RunCalls = <<>>

\* C6: for every command T without a Run function and with a subcommand, a
\* command line that ends with the name of T returns ErrRequestHelp after
\* writing the long help of T, and calls no Run function
C6_TopicNameLastShowsItsHelp ==
    (/\ pc = "done"
     /\ Target # ""
     /\ Cmd(Target).Run = "none"
     /\ Children(Target) # {}
     /\ HooksSucceeded)
    => LongHelpOf(Target)

\* C6 as the code has it: the same for every T that has neither a Run
\* function nor an Init hook and has an actionable descendant
C6_TopicWithActionableDescendant ==
    (/\ pc = "done"
     /\ Target # ""
     /\ ~Actionable(Target)
     /\ HasActionableDescendant(Target)
     /\ HooksSucceeded)
    => LongHelpOf(Target)

\* "grp mid" has written the long help of the topic "mid"
C6_Witness ==
    /\ scen.tree = "topic"
    /\ pc = "done"
    /\ rawArgs = <<nGrp, nMid>>
    /\ Target = "mid"
    /\ HooksSucceeded
    /\ LongHelpOf("mid")

\* the step makes frame cur return e without invoking a hook or calling Run
\* for a subcommand
ReturnsAtOnce(e) ==
    /\ pc' = "unwind"
    /\ err' = e
    /\ hooks' = hooks
    /\ envs' = envs
    /\ cur' = cur

\* a frame that returns invokes no hook and calls no Run, and passes the
\* error on unless it recovers a panic
QuietReturn ==
    pc = "unwind" => /\ pc' \in {"unwind", "done"}
                     /\ hooks' = hooks
                     /\ envs' = envs
                     /\ ~panic.active => err' = err

NotUnderstood(c, tok) == MkOut("notunderstood", c, <<tok>>, {}, <<>>, <<>>)

\* C7: when arguments remain after Init and the first names no subcommand,
\* Run writes the "not understood" message and returns ErrRequestHelp, and
\* no Run function is called
C7_UnmatchedTokenNotUnderstood ==
    [][/\ (Routing /\ NamedChildren(cmd, envs[cur].Args[1]) = {})
          => /\ ReturnsAtOnce(ErrRequestHelp)
             /\ out' = Append(out, NotUnderstood(cmd, envs[cur].Args[1]))
       /\ QuietReturn]_vars

\* C7 as the code has it: the same when the command has no Run function
C7_UnmatchedTokenWithoutRun ==
    [][/\ (Routing /\ NamedChildren(cmd, envs[cur].Args[1]) = {} /\ Cmd(cmd).Run = "none")
          => /\ ReturnsAtOnce(ErrRequestHelp)
             /\ out' = Append(out, NotUnderstood(cmd, envs[cur].Args[1]))
       /\ QuietReturn]_vars

\* a command without a Run function was left with an argument that names
\* none of its subcommands, and Run has returned ErrRequestHelp
C7_Witness ==
    /\ pc = "done"
    /\ err = ErrRequestHelp
    /\ out # <<>>
    /\ Last(out).kind = "notunderstood"
    /\ Cmd(Last(out).node).Run = "none"
    /\ NamedChildren(Last(out).node, Last(out).arg[1]) = {}
    /\ RunCalls = <<>>

\* the universal help triggers
HelpTriggers == {F1(nH), F1(nHelp), F2(nHelp)}

\* the name of a flag-shaped token: what follows its one or two dashes, up
\* to the equals sign if it has one
FlagName(tok) == CutEq(TrimDash(Tail(tok))).before

\* the command of frame cur declares a flag with the name of tok
Declares(tok) == \E i \in 1..Len(fs[cmd]) : fs[cmd][i].name = FlagName(tok)

\* frame cur is about to parse arguments that start with a help trigger, and
\* the trigger is the first argument the parser sees: under merge mode no
\* later argument is a flag of the command
MeetsHelpTrigger ==
    /\ pc = "parse"
    /\ ~Cmd(cmd).CustomFlags
    /\ envs[cur].Args # <<>>
    /\ envs[cur].Args[1] \in HelpTriggers
    /\ envs[cur].skipMerge
       \/ \A i \in 2..Len(envs[cur].Args) :
             HasDashPrefix(envs[cur].Args[i]) => ~Declares(envs[cur].Args[i])

\* C8: when parsing meets a help trigger, declared by the command or not,
\* Run writes the short help of the command and returns ErrRequestHelp; the
\* Init hook and the Run functions are not called
C8_HelpTriggerShortHelp ==
    [][/\ MeetsHelpTrigger
          => /\ ReturnsAtOnce(ErrRequestHelp)
             /\ out' = Append(out, printShortHelp(fs, cmd))
       /\ QuietReturn]_vars

\* C8 as the code has it: when parsing meets a help trigger that the
\* command does not declare, Run writes the long help of the command and
\* returns ErrRequestHelp, and the Init hook and the Run functions are not
\* called; a trigger that the command declares as a Boolean flag, alone on
\* the command line, is set like any flag and nothing is written
C8_UndeclaredHelpTriggerLongHelp ==
    [][/\ (MeetsHelpTrigger /\ ~Declares(envs[cur].Args[1]))
          => /\ ReturnsAtOnce(ErrRequestHelp)
             /\ Len(out') = Len(out) + 1
             /\ Last(out').kind = "long"
             /\ Last(out').node = cmd
       /\ (MeetsHelpTrigger /\ Declares(envs[cur].Args[1]) /\ Len(envs[cur].Args) = 1)
          => /\ pc' = "init"
             /\ err' = Nil
             /\ out' = out
             /\ fs'[cmd][Lookup(fs[cmd], FlagName(envs[cur].Args[1]))].value = nTrue
       /\ QuietReturn]_vars

\* a subcommand has met a help trigger it does not declare: Run has written
\* its long help and returned ErrRequestHelp without calling Init or Run
C8_Witness ==
    /\ pc = "done"
    /\ Len(envs) >= 2
    /\ envs[Len(envs)].Args # <<>>
    /\ envs[Len(envs)].Args[1] \in HelpTriggers
    /\ err = ErrRequestHelp
    /\ out # <<>>
    /\ Last(out).kind = "long"
    /\ Last(out).node = envs[Len(envs)].Command
    /\ \A i \in 1..Len(hooks) : hooks[i].env # Len(envs) \/ hooks[i].hook = "SetFlags"

\* tok has the shape of a flag: one or two dashes and a name that starts
\* with neither a dash nor an equals sign
FlagShaped(tok) ==
    /\ HasDashPrefix(tok)
    /\ TrimDash(Tail(tok)) # <<>>
    /\ TrimDash(Tail(tok))[1] \notin {"-", "="}

\* frame cur is about to parse, under non-merge mode, arguments that start
\* with a flag the command does not declare and that is no help trigger
StartsWithUnknownFlag ==
    /\ pc = "parse"
    /\ envs[cur].skipMerge
    /\ envs[cur].Args # <<>>
    /\ FlagShaped(envs[cur].Args[1])
    /\ FlagName(envs[cur].Args[1]) \notin {nH, nHelp}
    /\ ~Declares(envs[cur].Args[1])

FlagNotDefined(e) == e.type = "error" /\ e.msg = "flag provided but not defined"

\* C9: under non-merge mode, when the arguments of a command start with a
\* flag it does not declare, Run returns the error "flag provided but not
\* defined" and calls neither the Init hook, nor Run for a subcommand,
\* nor a Run function
C9_UnknownFlagIsAnError ==
    [][/\ StartsWithUnknownFlag
          => /\ FlagNotDefined(err')
             /\ ReturnsAtOnce(err')
       /\ QuietReturn]_vars

\* C9 as the code has it: the same for a command that does not parse its
\* flags itself (CustomFlags is false)
C9_UnknownFlagOfParsedCommand ==
    [][/\ (StartsWithUnknownFlag /\ ~Cmd(cmd).CustomFlags)
          => /\ FlagNotDefined(err')
             /\ err'.val = FlagName(envs[cur].Args[1])
             /\ ReturnsAtOnce(err')
       /\ QuietReturn]_vars

\* "--nonesuch x y" under non-merge mode has returned the error, and no
\* hook but SetFlags was invoked
C9_Witness ==
    /\ scen.tree = "parse"
    /\ pc = "done"
    /\ envs[1].skipMerge
    /\ rawArgs = <<F2(nNonesuch), tX, tY>>
    /\ FlagNotDefined(err)
    /\ err.val = nNonesuch
    /\ Len(envs) = 1
    /\ \A i \in 1..Len(hooks) : hooks[i].hook = "SetFlags"

\* C10: when the Init hook of a command returns an error, Run returns an
\* error that names the command and carries the message of the hook; no
\* hook is invoked after it and Run is called for no subcommand
C10_InitErrorEndsDispatch ==
    \A i \in 1..Len(hooks) :
        (hooks[i].hook = "Init" /\ hooks[i].ret # Nil)
        => /\ i = Len(hooks)
           /\ Len(envs) = hooks[i].env
           /\ envs[hooks[i].env].Command = hooks[i].node
           /\ Returning
           /\ err.type = "error"
           /\ err.msg = "initializing"
           /\ err.node = hooks[i].node
           /\ err.val = hooks[i].ret.val

\* the Init hook of a subcommand has returned an error and the top-level
\* Run has returned it, wrapped
C10_Witness ==
    /\ pc = "done"
    /\ hooks # <<>>
    /\ Last(hooks).hook = "Init"
    /\ Last(hooks).ret \in HookErrors
    /\ Last(hooks).env = 2
    /\ err = MkErr("error", "initializing", envs[2].Command, Last(hooks).ret.val)

\* C11: when a Run function is called and returns, the top-level Run
\* returns what it returned, nil or the same error, at whatever depth the
\* Run function was called
C11_ActionResultIsRunResult ==
    (Returning /\ RunCalls # <<>> /\ panic.hook = "")
    => /\ Len(RunCalls) = 1
       /\ err = RunCalls[1].ret

\* a Run function two levels below the root has returned an error and the
\* top-level Run has returned it
C11_Witness ==
    /\ pc = "done"
    /\ panic.hook = ""
    /\ Len(RunCalls) = 1
    /\ RunCalls[1].env = 3
    /\ RunCalls[1].ret \in HookErrors
    /\ err = RunCalls[1].ret

\* frame cur is about to route, its command has no Run function, and the
\* step does not call Run for a subcommand: the traversal ends here
EndsWithoutRun == Routing /\ Cmd(cmd).Run = "none" /\ pc' # "setFlags"

\* C12: when the traversal ends at a command without a Run function, Run
\* writes the help of that command, the short help when no arguments remain
\* and the long help when arguments remain whose first names no subcommand,
\* returns ErrRequestHelp and calls no Run function
C12_NoActionShowsOwnHelp ==
    [][/\ (pc = "exec" /\ Cmd(cmd).Run = "none")
          => /\ envs[cur].Args = <<>>
             /\ ReturnsAtOnce(ErrRequestHelp)
             /\ out' = Append(out, printShortHelp(fs, cmd))
       /\ (EndsWithoutRun /\ NamedChildren(cmd, envs[cur].Args[1]) = {})
          => /\ ReturnsAtOnce(ErrRequestHelp)
             /\ out' = Append(out, printLongHelp(fs, cmd, <<>>))
       /\ QuietReturn]_vars

\* C12 as the code has it: with no arguments left Run writes the short help
\* of the command; with arguments left it writes no help of the command
\* itself, but the "not understood" message, or the long help of the topic
\* subcommand the first argument names; it returns ErrRequestHelp and calls
\* no Run function
C12_NoActionShortHelpOrMessage ==
    [][/\ (pc = "exec" /\ Cmd(cmd).Run = "none")
          => /\ envs[cur].Args = <<>>
             /\ ReturnsAtOnce(ErrRequestHelp)
             /\ Len(out') = Len(out) + 1
             /\ Last(out').kind = "short"
             /\ Last(out').node = cmd
       /\ EndsWithoutRun
          => /\ ReturnsAtOnce(ErrRequestHelp)
             /\ \/ /\ NamedChildren(cmd, envs[cur].Args[1]) # {}
                   /\ Len(envs[cur].Args) = 1
                   /\ \E c \in NamedChildren(cmd, envs[cur].Args[1]) :
                         out' = Append(out, printLongHelp(fs, c, <<>>))
                \/ out' = Append(out, NotUnderstood(cmd, envs[cur].Args[1]))
       /\ QuietReturn]_vars

\* the traversal has ended at a subcommand that has an Init hook and no Run
\* function, with no arguments left: its short help was written
C12_Witness ==
    /\ pc = "done"
    /\ Len(envs) = 2
    /\ Cmd(envs[2].Command).Run = "none"
    /\ envs[2].Args = <<>>
    /\ err = ErrRequestHelp
    /\ Len(out) = 1
    /\ out[1].kind = "short"
    /\ out[1].node = envs[2].Command
    /\ RunCalls = <<>>

\* the unlisted subcommands of the parent of frame cur that tok names
UnlistedSiblings(tok) ==
    {c \in NamedChildren(envs[envs[cur].Parent].Command, tok) : Cmd(c).Unlisted}

\* C13: an unlisted subcommand that is named on the command line is
\* dispatched like any other, Run is called for it with the arguments after
\* its name and its Run function is called with its Args, while a help
\* lookup that names it writes "Unknown help topic", not its help, and
\* returns ErrRequestHelp
C13_UnlistedRunsButHasNoHelp ==
    [][/\ \A c \in Nodes :
             (Routing /\ c \in NamedChildren(cmd, envs[cur].Args[1])
                /\ Cmd(c).Unlisted /\ Actionable(c))
             => RecursesInto(c)
       /\ (pc = "exec" /\ Cmd(cmd).Unlisted /\ Cmd(cmd).Run = "user")
          => /\ Len(hooks') = Len(hooks) + 1
             /\ Last(hooks').hook = "Run"
             /\ Last(hooks').node = cmd
             /\ Last(hooks').args = envs[cur].Args
       /\ (/\ pc = "exec"
           /\ Cmd(cmd).Run = "RunHelp"
           /\ envs[cur].Args # <<>>
           /\ UnlistedSiblings(envs[cur].Args[1]) # {})
          => /\ pc' = "unwind"
             /\ err' = ErrRequestHelp
             /\ panic' = panic
             /\ Len(out') = Len(out) + 1
             /\ Last(out').kind = "unknowntopic"
             /\ Last(out').arg = envs[cur].Args
             /\ \A i \in 1..Len(out') : out'[i].node \notin UnlistedSiblings(envs[cur].Args[1])]_vars

\* "help secret" has reported an unknown help topic
C13_Witness ==
    /\ scen.tree = "example"
    /\ pc = "done"
    /\ rawArgs = <<nHelp, nSecret>>
    /\ err = ErrRequestHelp
    /\ Len(out) = 1
    /\ out[1].kind = "unknowntopic"
    /\ out[1].arg = <<nSecret>>

\* a is an order-preserving interleaving of x and y: every element of a is
\* taken from the front of exactly one of them
RECURSIVE Interleaves(_, _, _)
Interleaves(a, x, y) ==
    IF a = <<>> THEN x = <<>> /\ y = <<>>
    ELSE \/ x # <<>> /\ Head(x) = Head(a) /\ Interleaves(Tail(a), Tail(x), y)
         \/ y # <<>> /\ Head(y) = Head(a) /\ Interleaves(Tail(a), x, Tail(y))

\* the resolver has run on the current arguments and reported no error
Resolved == split.parsed /\ split.merged /\ split.err = Nil

\* C14: whenever splitFlags reports no error for a scope and a token
\* sequence, every input token appears in exactly one of flags and free, and
\* each of the two lists its tokens in their original relative order, so
\* that nothing is added, dropped, duplicated or reordered
C14_SplitIsOrderedPartition ==
    Resolved
    => /\ Len(split.flags) + Len(split.free) = Len(split.args)
       /\ Interleaves(split.args, split.flags, split.free)

\* the resolver has split "one -A 1" style input into a claimed flag with
\* its value and free tokens on both sides of it
C14_Witness ==
    /\ Resolved
    /\ Len(split.args) = 3
    /\ Len(split.flags) = 2
    /\ split.free # <<>>
    /\ split.args[1] = split.free[1]
    /\ split.args[2] = split.flags[1]

\* token t is written as a flag that scope S declares
IsFlagOf(S, t) ==
    /\ HasDashPrefix(t)
    /\ t \notin {tDash, tDashDash}
    /\ Lookup(S, CutEq(TrimDash(Tail(t))).before) # 0

\* flag token t of scope S takes the next token as its value
TakesNext(S, t) ==
    /\ ~CutEq(TrimDash(Tail(t))).found
    /\ ~isBoolFlag(S[Lookup(S, CutEq(TrimDash(Tail(t))).before)])

\* position i of A holds the value of the flag of S at position i - 1
RECURSIVE ValueAt(_, _, _)
ValueAt(S, A, i) ==
    /\ i > 1
    /\ ~ValueAt(S, A, i - 1)
    /\ IsFlagOf(S, A[i - 1])
    /\ TakesNext(S, A[i - 1])

\* the positions of A that hold a flag of S or the value of one
FlagPositions(S, A) ==
    {i \in 1..Len(A) : ValueAt(S, A, i) \/ IsFlagOf(S, A[i])}

\* the tokens of A at the positions P from position i on, in their order
RECURSIVE PickFrom(_, _, _)
PickFrom(A, P, i) ==
    IF i > Len(A) THEN <<>>
    ELSE (IF i \in P THEN <<A[i]>> ELSE <<>>) \o PickFrom(A, P, i + 1)

\* A rewritten so that the flags of S, with their values, come first and
\* the other tokens follow in their original order
PreOrdered(S, A) ==
    PickFrom(A, FlagPositions(S, A), 1)
        \o PickFrom(A, (1..Len(A)) \ FlagPositions(S, A), 1)

\* C15: when the resolver succeeds on scope S and tokens A, the flag
\* package parses joinArgs(splitFlags(S, A)) to the same flag bindings,
\* the same residual arguments and the same error or help outcome as it
\* parses A rewritten with the flags of S and their values first and the
\* other tokens after them in their original order
C15_JoinedParsesAsPreOrdered ==
    Resolved
    => /\ split.toParse = joinArgs(split.flags, split.free)
       /\ FlagParse(split.scope, split.toParse)
              = FlagParse(split.scope, PreOrdered(split.scope, split.args))

\* a flag with its value has been moved in front of a free token and the
\* flag package has bound it
C15_Witness ==
    /\ Resolved
    /\ split.flags # <<>>
    /\ split.free # <<>>
    /\ split.toParse # split.args
    /\ FlagParse(split.scope, split.toParse).err = Nil
    /\ FlagParse(split.scope, split.toParse).args = split.free
    /\ FlagParse(split.scope, split.toParse).fs # split.scope

HelpTokens == {F1(nHelp), F2(nHelp)}

\* what is left of A after the leading flags of S, each with its value
RECURSIVE AfterOwnFlags(_, _)
AfterOwnFlags(S, A) ==
    IF A = <<>> \/ ~IsFlagOf(S, A[1]) THEN A
    ELSE IF ~TakesNext(S, A[1]) THEN AfterOwnFlags(S, Tail(A))
    ELSE IF Len(A) < 2 THEN <<>>
    ELSE AfterOwnFlags(S, Tail(Tail(A)))

\* every flag of S among the tokens A is given a value it accepts
ValuesAccepted(S, A) ==
    \A i \in 1..Len(A) :
        (IsFlagOf(S, A[i]) /\ ~ValueAt(S, A, i))
        => LET c == CutEq(TrimDash(Tail(A[i])))
               k == S[Lookup(S, c.before)].kind
           IN  IF c.found THEN SetOk(k, c.after)
               ELSE IF TakesNext(S, A[i]) /\ i < Len(A) THEN SetOk(k, A[i + 1])
               ELSE TRUE

\* the last token of A is a flag of S that lacks its value
LacksValue(S, A) ==
    /\ A # <<>>
    /\ IsFlagOf(S, A[Len(A)])
    /\ ~ValueAt(S, A, Len(A))
    /\ TakesNext(S, A[Len(A)])

\* frame cur is about to parse the tokens of a command that declares no
\* help flag
ParsingWithoutHelpFlag ==
    /\ pc = "parse"
    /\ ~Cmd(cmd).CustomFlags
    /\ Lookup(fs[cmd], nHelp) = 0

\* a help token comes before the first non-flag argument and before any
\* "--", after nothing but flags of the command
HelpAsked ==
    /\ ParsingWithoutHelpFlag
    /\ AfterOwnFlags(fs[cmd], envs[cur].Args) # <<>>
    /\ AfterOwnFlags(fs[cmd], envs[cur].Args)[1] \in HelpTokens

\* a help token follows a "-" or "--" that comes after nothing but flags of
\* the command
HelpFreed ==
    /\ ParsingWithoutHelpFlag
    /\ Len(AfterOwnFlags(fs[cmd], envs[cur].Args)) >= 2
    /\ AfterOwnFlags(fs[cmd], envs[cur].Args)[1] \in {tDash, tDashDash}
    /\ AfterOwnFlags(fs[cmd], envs[cur].Args)[2] \in HelpTokens

\* the tokens of frame cur that are not flags of its command or values of
\* them: all of them under merge mode, those after the leading flags
\* otherwise
Unclaimed ==
    IF envs[cur].skipMerge
    THEN AfterOwnFlags(fs[cmd], envs[cur].Args)
    ELSE PickFrom(envs[cur].Args,
                  (1..Len(envs[cur].Args)) \ FlagPositions(fs[cmd], envs[cur].Args), 1)

\* the parse step returns ErrRequestHelp
ParseAsksHelp ==
    /\ pc' = "unwind"
    /\ err' = ErrRequestHelp
    /\ hooks' = hooks

\* the parse step leaves the help token among the arguments of the command
ParseFreesHelp ==
    /\ pc' = "init"
    /\ err' = Nil
    /\ envs'[cur].Args = IF Unclaimed[1] = tDashDash THEN Tail(Unclaimed) ELSE Unclaimed
    /\ \E i \in 1..2 : envs'[cur].Args[i] \in HelpTokens

\* a command with a Run function whose arguments start with "-" or a help
\* token is not routed further, and its Run function is called with them
FreedHelpIsRun ==
    /\ (Routing /\ envs[cur].Args[1] \in HelpTokens \cup {tDash} /\ Cmd(cmd).Run = "user")
       => pc' = "exec" /\ envs' = envs /\ cur' = cur /\ out' = out
    /\ (/\ pc = "exec"
        /\ envs[cur].Args # <<>>
        /\ envs[cur].Args[1] \in HelpTokens \cup {tDash}
        /\ Cmd(cmd).Run = "user")
       => /\ Len(hooks') = Len(hooks) + 1
          /\ Last(hooks').hook = "Run"
          /\ Last(hooks').node = cmd
          /\ Last(hooks').args = envs[cur].Args

RECURSIVE BindLeading(_, _)
BindLeading(S, A) ==
    IF A = <<>> \/ ~IsFlagOf(S, A[1]) THEN S
    ELSE LET c == CutEq(TrimDash(Tail(A[1])))
             i == Lookup(S, c.before)
         IN  IF c.found THEN BindLeading(SetFlag(S, i, c.after), Tail(A))
             ELSE IF ~TakesNext(S, A[1]) THEN BindLeading(SetFlag(S, i, nTrue), Tail(A))
             ELSE IF Len(A) < 2 THEN S
             ELSE BindLeading(SetFlag(S, i, A[2]), Tail(Tail(A)))

\* the leading flags of A with their values
Leading(S, A) == SubSeq(A, 1, Len(A) - Len(AfterOwnFlags(S, A)))

\* frame cur is about to parse its tokens under non-merge mode, and a
\* token follows the leading flags of its command
ParsingUnmerged ==
    /\ pc = "parse"
    /\ envs[1].skipMerge
    /\ ~Cmd(cmd).CustomFlags
    /\ AfterOwnFlags(fs[cmd], envs[cur].Args) # <<>>
    /\ ValuesAccepted(fs[cmd], Leading(fs[cmd], envs[cur].Args))

\* the first token after the leading flags is a positional argument
PositionalNext ==
    LET t == AfterOwnFlags(fs[cmd], envs[cur].Args)[1] IN
    ~HasDashPrefix(t) \/ t = tDash

\* the first token after the leading flags is written as a flag that an
\* enclosing command declares and the command of frame cur does not
AncestorFlagNext ==
    LET t == AfterOwnFlags(fs[cmd], envs[cur].Args)[1] IN
    /\ HasDashPrefix(t)
    /\ t \notin {tDash, tDashDash}
    /\ \E j \in 1..(cur - 1) : Lookup(fs[envs[j].Command], FlagName(t)) # 0

\* C17: under non-merge mode a command binds the flags that come before
\* its first non-flag token and no others: from the first positional token
\* on, the tokens are the Args of the command unchanged, flags of the
\* command and their values among them ("one x y -B w" leaves B unbound and
\* gives one the Args x y -B w); and a flag of an enclosing command that
\* comes where a subcommand expects its own flags is rejected as not defined
C17_UnmergedBindsLeadingFlagsOnly ==
    [][/\ (ParsingUnmerged /\ PositionalNext)
          => /\ pc' = "init"
             /\ err' = Nil
             /\ envs'[cur].Args = AfterOwnFlags(fs[cmd], envs[cur].Args)
             /\ fs'[cmd] = BindLeading(fs[cmd], envs[cur].Args)
       /\ (ParsingUnmerged /\ AncestorFlagNext)
          => /\ pc' = "unwind"
             /\ err'.type = "error"
             /\ err'.msg = "flag provided but not defined"
             /\ err'.val = FlagName(AfterOwnFlags(fs[cmd], envs[cur].Args)[1])
             /\ hooks' = hooks]_vars

\* under non-merge mode "one x y -B w" has called the Run function of one
\* with x y -B w and has left B unset
C17_Witness ==
    /\ scen.tree = "parse"
    /\ pc = "done"
    /\ envs[1].skipMerge
    /\ rawArgs = <<nOne, tX, tY, F1(nB), <<"w">>>>
    /\ Len(RunCalls) = 1
    /\ RunCalls[1].node = "one"
    /\ RunCalls[1].args = <<tX, tY, F1(nB), <<"w">>>>
    /\ fs["one"][1].name = nB
    /\ fs["one"][1].value = <<>>

\* the deferred function of frame cur runs while a panic is propagating
Recovering == pc = "unwind" /\ panic.active

\* C18 as stated: within one top-level Run a panic is made a PanicError
\* once, by the outermost frame, at whatever depth it was raised; the
\* frames nested in it do not recover the panic and do not wrap it again
C18_ConvertedAtOutermostFrame ==
    [][/\ Recovering => (IF cur = 1 THEN ~panic'.active ELSE panic'.active)
       /\ (pc = "unwind" /\ err'.type = "PanicError" /\ err' # err) => cur = 1]_vars

\* C18, amended: within one top-level Run a panic is made a PanicError
\* once, by the frame in which it was raised, which is the innermost frame
\* of the recursion at that time; that frame stops the panic, and every
\* enclosing frame returns the PanicError it is handed unchanged
C18_ConvertedAtRaisingFrame ==
    [][/\ Recovering
          => /\ cur = panic.frame
             /\ cur = Len(envs)
             /\ err'.type = "PanicError"
             /\ err'.val = panic.value
             /\ err'.env = cur
             /\ ~panic'.active
       /\ (pc = "unwind" /\ ~panic.active) => (err' = err /\ ~panic'.active)
       /\ (~panic.active /\ panic'.active) => (panic.hook = "" /\ pc' = "unwind")]_vars

\* the Init hook of leaf has panicked in the fourth frame, and the
\* top-level Run has returned the PanicError that frame made
C18_Witness ==
    /\ pc = "done"
    /\ cur = 1
    /\ panic.hook = "Init"
    /\ panic.frame = 4
    /\ ~panic.active
    /\ err.type = "PanicError"
    /\ err.env = 4
    /\ envs[4].Command = "leaf"

\* the Env the top-level Run is called with has a context of its own
RootOwnsHandle == envs # <<>> /\ envs[1].ctx # 0

\* C19 as stated: when the root Env owns a cancellable context and the
\* top-level Run has returned, by whatever path, the context is canceled
\* and its cause is the error Run returned
C19_CanceledWithReturnedError ==
    (pc = "done" /\ RootOwnsHandle)
    => /\ handles[envs[1].ctx].canceled
       /\ handles[envs[1].ctx].cause = err

\* C19, amended: when the root Env owns a cancellable context, the context
\* is canceled when the top-level Run returns, by whatever path; if it was
\* not canceled before, by an earlier Run or by a hook, the frame that
\* returns first cancels it with the error it returns, which is the error
\* the top-level Run returns, or with context.Canceled when that is nil;
\* once canceled it keeps its cause, so that after a later Run on the same
\* Env the cause is still that of the first
C19_CanceledOnceWithFirstError ==
    [][/\ (pc = "unwind" /\ RootOwnsHandle)
          => /\ handles'[envs[1].ctx].canceled
             /\ ~handles[envs[1].ctx].canceled
                => handles'[envs[1].ctx].cause = IF err' = Nil THEN Canceled ELSE err'
             /\ ~panic.active => err' = err
             /\ cur = 1 => pc' = "done"
       /\ (RootOwnsHandle /\ handles[envs[1].ctx].canceled) => handles' = handles]_vars

\* the first Run on an Env with a context of its own has returned the error
\* of the Run function of two, called in the third frame, and the context is
\* canceled with that error as its cause
C19_Witness ==
    /\ pc = "done"
    /\ calls = 1
    /\ RootOwnsHandle
    /\ Len(envs) = 3
    /\ Len(RunCalls) = 1
    /\ RunCalls[1].env = 3
    /\ err \in HookErrors
    /\ handles[envs[1].ctx] = [canceled |-> TRUE, cause |-> err]

\* the tokens frame cur is about to parse start with a flag its command
\* does not declare, other than a help flag
UndeclaredFlagFirst ==
    /\ pc = "parse"
    /\ ~Cmd(cmd).CustomFlags
    /\ envs[cur].Args # <<>>
    /\ HasDashPrefix(envs[cur].Args[1])
    /\ envs[cur].Args[1] \notin {tDash, tDashDash}
    /\ ~IsFlagOf(fs[cmd], envs[cur].Args[1])
    /\ FlagName(envs[cur].Args[1]) \notin {nHelp, nH}

\* the tokens frame cur is about to parse are a flag of its command that
\* lacks its value
FlagWithoutValue ==
    /\ pc = "parse"
    /\ ~Cmd(cmd).CustomFlags
    /\ Len(envs[cur].Args) = 1
    /\ LacksValue(fs[cmd], envs[cur].Args)

\* frame cur is about to route a word that names no subcommand, and its
\* command has no Run function to take it as an argument
UnknownSubcommand ==
    /\ Routing
    /\ ~HasDashPrefix(envs[cur].Args[1])
    /\ NamedChildren(cmd, envs[cur].Args[1]) = {}
    /\ Cmd(cmd).Run = "none"

\* C20: when the command line is incorrect for the tree, by a flag that is
\* not declared, a flag that lacks its value or a word that names no
\* subcommand, Run writes to the output of the Env and returns a UsageError
\* that carries the Env at fault; and Run returns ErrRequestHelp only for a
\* help flag
C20_IncorrectUsageIsUsageError ==
    [][/\ (UndeclaredFlagFirst \/ FlagWithoutValue \/ UnknownSubcommand)
          => /\ pc' = "unwind"
             /\ err'.type = "UsageError"
             /\ err'.env = cur
             /\ Len(out') = Len(out) + 1
       /\ (err'.type = "ErrRequestHelp" /\ err.type # "ErrRequestHelp")
          => (pc = "parse" /\ \E i \in 1..Len(envs[cur].Args) :
                                  envs[cur].Args[i] \in HelpTriggers)]_vars

\* "--nonesuch x y" has returned the error of the flag package, which is no
\* UsageError and carries no Env, and nothing has been written
C20_Witness ==
    /\ scen.tree = "parse"
    /\ pc = "done"
    /\ rawArgs = <<F2(nNonesuch), tX, tY>>
    /\ err.type = "error"
    /\ err.msg = "flag provided but not defined"
    /\ err.env = 0
    /\ out = <<>>

\* RunOrFail has dealt with the error of the Run that has returned
Failed == exit # NoExit

\* C21: RunOrFail returns if and only if Run returns nil; it exits with
\* status 2 when the error of Run is a UsageError or ErrRequestHelp and with
\* status 1 for every other error, the errors of the flag package, wrapped
\* Init errors, errors of Run functions and PanicErrors among them, and it
\* logs the stack exactly when the error is a PanicError
C21_ExitStatusByErrorKind ==
    Failed
    => /\ (exit.status = 0) <=> (err = Nil)
       /\ (exit.status = 0) <=> (pc = "done")
       /\ (exit.status = 2) <=> (err.type \in {"UsageError", "ErrRequestHelp"})
       /\ (exit.status = 1) <=> (err.type \in {"error", "PanicError"})
       /\ (\E i \in 1..Len(exit.log) : exit.log[i] = "Stack") <=> (err.type = "PanicError")
       /\ exit.status \in {0, 1, 2}

\* a Run function has returned a UsageError made by Usagef, Run has
\* returned it and RunOrFail has ended the process with status 2
C21_Witness ==
    /\ pc = "exited"
    /\ Len(RunCalls) = 1
    /\ RunCalls[1].ret.type = "UsageError"
    /\ err = RunCalls[1].ret
    /\ exit.status = 2
    /\ exit.usage = RunCalls[1].env

\* the SetFlags invocations of node n by call p
InvokedBy(n, p) ==
    SelectSeq(hooks, LAMBDA h : h.hook = "SetFlags" /\ h.node = n /\ h.env = p)

HandleCanceled == RootOwnsHandle /\ handles[envs[1].ctx].canceled

\* the step invokes hook h of the command of frame cur with the Args of
\* its Env
Invokes(h) ==
    /\ Len(hooks') = Len(hooks) + 1
    /\ Last(hooks').hook = h
    /\ Last(hooks').node = cmd
    /\ Last(hooks').env = cur
    /\ Last(hooks').args = envs[cur].Args

\* what a step of a frame does, in terms of the Env of the frame, the flag
\* set of its command and the tree alone: parseFlags parses, the Init hook
\* is invoked if there is one, routing follows the first argument, and the
\* Run function is called with the Args of the Env
DispatchStep ==
    /\ pc = "parse"
       => /\ fs'[cmd] = parseFlags(envs[cur], fs[cmd]).fs
          /\ envs'[cur].Args = parseFlags(envs[cur], fs[cmd]).args
          /\ err' = parseFlags(envs[cur], fs[cmd]).err
          /\ pc' = IF err' = Nil THEN "init" ELSE "unwind"
    /\ pc = "init"
       => IF Cmd(cmd).HasInit THEN Invokes("Init") ELSE pc' = "route" /\ hooks' = hooks
    /\ \A c \in Nodes :
          (Routing /\ c \in NamedChildren(cmd, envs[cur].Args[1]))
          => (RecursesInto(c)
                <=> (Actionable(c)
                       \/ (HasActionableDescendant(c) /\ Len(envs[cur].Args) > 1)))
    /\ (pc = "route" /\ Cmd(cmd).Run = "user" /\ pc' # "setFlags")
       => (pc' = "exec" /\ envs' = envs /\ err' = err)
    /\ (pc = "exec" /\ Cmd(cmd).Run = "user")
       => Invokes("Run")

\* C23: parsing, the invocation of Init, routing and the call of the Run
\* function are determined by the Env, the flag set and the tree, whether
\* the context of the Env is canceled or not, be it before Run is called
\* or by a hook on the way: a canceled context does not keep the Run
\* function from being called and does not change its arguments
C23_CancellationDoesNotSteer ==
    [][/\ DispatchStep
       /\ (HandleCanceled /\ pc = "init" /\ Cmd(cmd).HasInit) => Invokes("Init")
       /\ (HandleCanceled /\ pc = "exec" /\ Cmd(cmd).Run = "user") => Invokes("Run")]_vars

\* the Init hook of the root has canceled the context on the way, and the
\* Run function of leaf has been called all the same, with the argument
\* that followed its name, and has returned an error
C23_Witness ==
    /\ pc = "done"
    /\ calls = 1
    /\ HandleCanceled
    /\ handles[envs[1].ctx].cause = Canceled
    /\ rawArgs = <<nGrp, nMid, nLeaf, tX>>
    /\ Len(RunCalls) = 1
    /\ RunCalls[1].node = "leaf"
    /\ RunCalls[1].args = <<tX>>
    /\ err = RunCalls[1].ret
    /\ err \in HookErrors

\* the ancestor frames of frame cur that parsed under merge mode and whose
\* command declares a flag called name
ShadowingFrames(name) ==
    {j \in 1..(cur - 1) : ~envs[j].skipMerge /\ Lookup(fs[envs[j].Command], name) # 0}

\* the positions of A where a flag of S called name occurs as a flag
Occurrences(S, A, name) ==
    {i \in 1..Len(A) : IsFlagOf(S, A[i]) /\ ~ValueAt(S, A, i) /\ FlagName(A[i]) = name}

\* the value the occurrence at position i of A gives its flag, as stored
GivenAt(S, A, i) ==
    LET c == CutEq(TrimDash(Tail(A[i])))
        f == S[Lookup(S, c.before)]
    IN  Stored(f.kind, IF c.found THEN c.after
                       ELSE IF isBoolFlag(f) THEN nTrue
                       ELSE A[i + 1])

\* the largest element of a non-empty set of positions
MaxOf(P) == CHOOSE i \in P : \A j \in P : j <= i

\* C24: under merge mode a command that parses its arguments without error
\* binds every occurrence of each of its flags among them, wherever it
\* stands (the flag ends with the value of its last occurrence), and hands
\* down no token that names one of its flags; so a descendant that declares
\* a flag of the same name finds no such token among its arguments, and its
\* parse step leaves that flag as it was
C24_AncestorShadowsFlag ==
    [][pc = "parse"
       => /\ (~envs[cur].skipMerge /\ ~Cmd(cmd).CustomFlags /\ err' = Nil)
             => /\ \A k \in 1..Len(fs[cmd]) :
                      Occurrences(fs[cmd], envs[cur].Args, fs[cmd][k].name) # {}
                      => fs'[cmd][k].value
                           = GivenAt(fs[cmd], envs[cur].Args,
                                     MaxOf(Occurrences(fs[cmd], envs[cur].Args, fs[cmd][k].name)))
                /\ \A i \in 1..Len(envs'[cur].Args) : ~IsFlagOf(fs[cmd], envs'[cur].Args[i])
          /\ \A k \in 1..Len(fs[cmd]) :
                ShadowingFrames(fs[cmd][k].name) # {}
                => /\ fs'[cmd][k] = fs[cmd][k]
                   /\ \A i \in 1..Len(envs[cur].Args) :
                         ~(/\ HasDashPrefix(envs[cur].Args[i])
                           /\ envs[cur].Args[i] \notin {tDash, tDashDash}
                           /\ FlagName(envs[cur].Args[i]) = fs[cmd][k].name)]_vars

\* "two -A 1" under merge mode, where one and its subcommand two both
\* declare A: one has taken -A 1 from behind the name of its subcommand, and
\* two has run without arguments and with its own A unset
C24_Witness ==
    /\ scen.tree = "shadow"
    /\ pc = "done"
    /\ calls = 1
    /\ ~envs[1].skipMerge
    /\ rawArgs = <<nTwo, F1(nA), t1>>
    /\ err = Nil
    /\ Len(RunCalls) = 1
    /\ RunCalls[1].node = "inner"
    /\ RunCalls[1].args = <<>>
    /\ fs["outer"][1].value = t1
    /\ fs["inner"][1].value = <<>>

\* the hooks that the frames of the traversal have invoked so far, in the
\* order of their invocation (the SetFlags hooks that RunHelp invokes on its
\* walk belong to no frame)
FrameHooks == SelectSeq(hooks, LAMBDA h : h.env >= 1)

\* the place of a hook among the phases of a frame
Phase(h) == IF h.hook = "SetFlags" THEN 1 ELSE IF h.hook = "Init" THEN 3 ELSE 4

\* the arguments frame j was called with
GivenArgs(j) == IF j = 1 THEN rawArgs ELSE Tail(envs[j - 1].Args)

\* frame j has invoked hook h
Invoked(j, h) == \E i \in 1..Len(FrameHooks) : FrameHooks[i].env = j /\ FrameHooks[i].hook = h

\* frame j has got past its Init phase: it has recursed or called Run
PastInit(j) == j < Len(envs) \/ Invoked(j, "Run")

\* C25: the frames of a traversal form the matched path from the root, and
\* the hooks invoked so far are ordered by frame and, within a frame, by
\* phase, each at most once: SetFlags sees the arguments the frame was
\* called with (before they are parsed), Init and Run see the Args left by
\* flag parsing; a frame that has recursed or called Run has declared its
\* flags and has had its Init hook return nil; and the frame that is at a
\* phase has invoked no hook of that phase or a later one, and at Init has
\* parsed the arguments it was called with
C25_PhasesInOrderAlongPath ==
    /\ \A j \in 2..Len(envs) :
          /\ envs[j].Parent = j - 1
          /\ \E k \in 1..Len(Cmd(envs[j - 1].Command).Commands) :
                Cmd(envs[j - 1].Command).Commands[k] = envs[j].Command
          /\ envs[j - 1].Args # <<>>
          /\ envs[j - 1].Args[1] = Cmd(envs[j].Command).Name
    /\ \A i \in 1..Len(FrameHooks) :
          /\ FrameHooks[i].env \in 1..Len(envs)
          /\ FrameHooks[i].node = envs[FrameHooks[i].env].Command
          /\ FrameHooks[i].args = IF FrameHooks[i].hook = "SetFlags"
                                  THEN GivenArgs(FrameHooks[i].env)
                                  ELSE envs[FrameHooks[i].env].Args
          /\ \A k \in (i + 1)..Len(FrameHooks) :
                \/ FrameHooks[i].env < FrameHooks[k].env
                \/ /\ FrameHooks[i].env = FrameHooks[k].env
                   /\ Phase(FrameHooks[i]) < Phase(FrameHooks[k])
    /\ \A j \in 1..Len(envs) :
          PastInit(j)
          => /\ Cmd(envs[j].Command).HasSetFlags => isFlagSet[envs[j].Command]
             /\ Cmd(envs[j].Command).HasInit
                => \E i \in 1..Len(FrameHooks) :
                      /\ FrameHooks[i].env = j
                      /\ FrameHooks[i].hook = "Init"
                      /\ FrameHooks[i].ret = Nil
    /\ pc \in {"setFlags", "parse", "init", "route", "exec"}
       => /\ cur = Len(envs)
          /\ ~Invoked(cur, "Run")
          /\ pc \in {"setFlags", "parse", "init"} => ~Invoked(cur, "Init")
          /\ pc = "setFlags" => ~Invoked(cur, "SetFlags")
          /\ (pc \in {"init", "route", "exec"} /\ ~Cmd(cmd).CustomFlags)
             => /\ split.parsed
                /\ split.args = GivenArgs(cur)

\* "grp mid leaf -h" on the tree of topics: the Init hook of app ran with
\* all four arguments, grp declared its flag on the way, then leaf declared
\* its flag while -h was still among its arguments, had its Init hook
\* called after -h was parsed, and ran
C25_Witness ==
    /\ pc = "done"
    /\ calls = 1
    /\ err = Nil
    /\ rawArgs = <<nGrp, nMid, nLeaf, F1(nH)>>
    /\ Len(hooks) = 5
    /\ [i \in 1..5 |-> hooks[i].hook] = <<"Init", "SetFlags", "SetFlags", "Init", "Run">>
    /\ [i \in 1..5 |-> hooks[i].node] = <<"app", "grp", "leaf", "leaf", "leaf">>
    /\ [i \in 1..5 |-> hooks[i].env] = <<1, 2, 4, 4, 4>>
    /\ [i \in 1..5 |-> hooks[i].args]
           = <<rawArgs, <<nMid, nLeaf, F1(nH)>>, <<F1(nH)>>, <<>>, <<>>>>

\* a top-level Run call has been started and has not returned
Running == pc \in {"setFlags", "parse", "init", "route", "exec", "unwind"}

\* how a Run call that has returned ended: by calling the Run function of
\* the command it selected, by showing help, or with an error
Executed  == Len(RunCalls) = 1
HelpShown == RunCalls = <<>> /\ err = ErrRequestHelp
Errored   == RunCalls = <<>> /\ err \notin {Nil, ErrRequestHelp}

\* C26: a Run call that has been started returns, and has then ended in
\* exactly one way: it called the Run function of one command, or called
\* none and returned the request for help, or called none and returned
\* another error.  Each frame below the root was named by, and took away,
\* the first of the arguments its parent had left, so that a frame has
\* fewer arguments than its parent and the frames are never more than the
\* arguments of the call plus one
C26_ReturnsWithOneOutcome ==
    Running
    ~> /\ pc = "done"
       /\ Len(envs) <= Len(rawArgs) + 1
       /\ \A j \in 2..Len(envs) :
             /\ envs[j - 1].Args # <<>>
             /\ FindSubcommand(envs[j - 1].Command, envs[j - 1].Args[1]) = envs[j].Command
             /\ Len(envs[j].Args) < Len(envs[j - 1].Args)
       /\ Len(RunCalls) <= 1
       /\ Executed \/ HelpShown \/ Errored
       /\ Executed => RunCalls[1].env = Len(envs)

\* "grp mid leaf x" on the tree of topics: four frames for four arguments,
\* and the Run function of leaf has been called with x and has returned
\* nil
C26_Witness ==
    /\ pc = "done"
    /\ calls = 1
    /\ rawArgs = <<nGrp, nMid, nLeaf, tX>>
    /\ Len(envs) = 4
    /\ Executed
    /\ RunCalls[1].node = "leaf"
    /\ RunCalls[1].args = <<tX>>
    /\ err = Nil

\* the flags the SetFlags hook of c declares with the PRIVATE: marker
PrivateDecl(c) ==
    {Cmd(c).Decl[i].name : i \in {j \in 1..Len(Cmd(c).Decl) : Cmd(c).Decl[j].private}}

\* C27: no flag declared with the PRIVATE: marker is among the flags of a
\* HelpInfo asked for without IncludePrivateFlags, or among the flags of a
\* help text that Run has written, whatever HelpInfo calls and Run calls
\* were made on the tree before
C27_PrivateFlagNeverListed ==
    \A c \in Nodes :
        \A f \in PrivateDecl(c) :
            /\ (info.Name = c /\ "IncludePrivateFlags" \notin info.asked) => f \notin info.Flags
            /\ \A i \in 1..Len(out) : out[i].node = c => f \notin out[i].flags

\* "echo -p 25 -label ok bar" has bound the private flag p of the root of
\* the package example like the flag label, and a HelpInfo of the root
\* asked for afterwards without IncludePrivateFlags lists label and not p
C27_Witness ==
    /\ scen.tree = "example"
    /\ pc = "done"
    /\ calls = 1
    /\ rawArgs = <<nEcho, F1(nP), <<"2", "5">>, F1(nLabel), <<"o", "k">>, nBar>>
    /\ err = Nil
    /\ fs["example"][1].value = <<"o", "k">>
    /\ fs["example"][2].name = nP
    /\ fs["example"][2].private
    /\ fs["example"][2].value = Stored("int", <<"2", "5">>)
    /\ info.Name = "example"
    /\ info.asked = {"IncludeCommands"}
    /\ nLabel \in info.Flags
    /\ nP \notin info.Flags

\* the resolver was run on the tokens split.args for the scope split.scope
\* and reported no error
Split == split.parsed /\ split.merged /\ split.err = Nil

\* the positions of the tokens where t stands
PositionsOf(t) == {i \in 1..Len(split.args) : split.args[i] = t}

\* the positions of the tokens that stand where a flag of the scope expects
\* its value
ValuePositions == {i \in 1..Len(split.args) : ValueAt(split.scope, split.args, i)}

\* C28 as stated: every bare - among the tokens is among the free tokens,
\* and none is among the flag tokens
C28_DashAlwaysFree ==
    Split => /\ Count(split.free, tDash) = Cardinality(PositionsOf(tDash))
             /\ Count(split.flags, tDash) = 0

\* C28: a bare - is a free token wherever it stands, except where a flag of
\* the scope expects its value: there it is a flag token, the value of that
\* flag
C28_DashFreeUnlessValue ==
    Split => /\ Count(split.free, tDash) = Cardinality(PositionsOf(tDash) \ ValuePositions)
             /\ Count(split.flags, tDash) = Cardinality(PositionsOf(tDash) \cap ValuePositions)

\* "-A - -" at the root of the parse tests: the first - is the value of A
\* and the second is free
C28_Witness ==
    /\ Split
    /\ split.args = <<F1(nA), tDash, tDash>>
    /\ split.flags = <<F1(nA), tDash>>
    /\ split.free = <<tDash>>
    /\ pc = "done"
    /\ fs["root"][1].value = tDash
    /\ RunCalls[1].args = <<tDash>>

\* the positions of the -- tokens that do not stand where a flag of the
\* scope expects its value
DashDashes == PositionsOf(tDashDash) \ ValuePositions

\* the position of the first of them
FirstDashDash == CHOOSE k \in DashDashes : \A j \in DashDashes : k <= j

\* the last n tokens of the sequence q
LastN(q, n) == SubSeq(q, Len(q) - n + 1, Len(q))

\* C29: when there is a -- among the tokens (one that is not itself the
\* value of a flag), that token and all tokens after it are the last of the
\* free tokens, in their order, so that none of them is a flag token of the
\* scope
C29_AllFreeFromDashDash ==
    (Split /\ DashDashes # {})
    => /\ Len(split.free) >= Len(split.args) - FirstDashDash + 1
       /\ LastN(split.free, Len(split.args) - FirstDashDash + 1)
            = LastN(split.args, Len(split.args) - FirstDashDash + 1)

\* "-- -A 1" at the root of the parse tests under merge mode: the resolver
\* has classified -A and 1, which follow the --, as flag tokens, A is bound
\* to 1 and the Run function has been called without arguments
C29_Witness ==
    /\ Split
    /\ split.args = <<tDashDash, F1(nA), t1>>
    /\ split.flags = <<F1(nA), t1>>
    /\ split.free = <<tDashDash>>
    /\ pc = "done"
    /\ fs["root"][1].value = t1
    /\ RunCalls[1].args = <<>>

\* the resolver can have classified the tokens at the positions P as flag
\* tokens and the others as free tokens
ClassifiedAs(P) ==
    /\ split.flags = PickFrom(split.args, P, 1)
    /\ split.free = PickFrom(split.args, (1..Len(split.args)) \ P, 1)

\* what C30 says of the token at position i under the classification P: it
\* is a flag token; the next token is a flag token if the flag is not
\* Boolean and the token has no =value, and otherwise is classified by its
\* own shape
FlagRule(P, i) ==
    /\ i \in P
    /\ i < Len(split.args)
       => IF TakesNext(split.scope, split.args[i])
          THEN i + 1 \in P
          ELSE (i + 1 \in P) <=> IsFlagOf(split.scope, split.args[i + 1])

\* C30 as stated: the rule holds of every token that has the shape of a
\* flag and the name of a flag of the scope
C30_DeclaredFlagTakesNext ==
    Split
    => \E P \in SUBSET (1..Len(split.args)) :
          /\ ClassifiedAs(P)
          /\ \A i \in 1..Len(split.args) :
                IsFlagOf(split.scope, split.args[i]) => FlagRule(P, i)

\* C30: the rule holds of every token with the shape of a flag and the name
\* of a flag of the scope that is not itself the value of the flag before
\* it; a token that is such a value is a flag token and the token after it
\* is classified by its own shape; and the resolver reports an error
\* exactly when the last token is a flag that still expects its value
C30_FlagTakesNextUnlessValue ==
    /\ Split
       => \E P \in SUBSET (1..Len(split.args)) :
             /\ ClassifiedAs(P)
             /\ \A i \in (1..Len(split.args)) \ ValuePositions :
                   IsFlagOf(split.scope, split.args[i]) => FlagRule(P, i)
             /\ \A i \in ValuePositions :
                   /\ i \in P
                   /\ i < Len(split.args)
                      => ((i + 1 \in P) <=> IsFlagOf(split.scope, split.args[i + 1]))
    /\ (split.parsed /\ split.merged)
       => (split.err # Nil
             <=> /\ split.args # <<>>
                 /\ Len(split.args) \notin ValuePositions
                 /\ IsFlagOf(split.scope, Last(split.args))
                 /\ TakesNext(split.scope, Last(split.args)))

\* "-A -A 1" at the root of the parse tests: the second -A is the value of
\* the first and takes no value itself, so 1 is a free token
C30_Witness ==
    /\ Split
    /\ split.args = <<F1(nA), F1(nA), t1>>
    /\ split.flags = <<F1(nA), F1(nA)>>
    /\ split.free = <<t1>>
    /\ pc = "done"
    /\ fs["root"][1].value = F1(nA)
    /\ RunCalls[1].args = <<t1>>

\* frame cur is about to parse, under merge mode, arguments that end with a
\* flag of its command that expects a value
ParsingFlagWithoutValue ==
    /\ pc = "parse"
    /\ ~envs[cur].skipMerge
    /\ ~Cmd(cmd).CustomFlags
    /\ LacksValue(fs[cmd], envs[cur].Args)

\* C31: under merge mode, when the arguments of a command end with one of
\* its flags that is not Boolean, has no =value and is not itself the value
\* of the flag before it, the resolver returns the error "missing value for
\* flag" with that flag and neither flag tokens nor free tokens; nothing is
\* given to the flag package, no flag is bound, and Run returns that error
\* from this frame and from every frame above it: no hook is invoked, no
\* frame is added and nothing is written
C31_MissingValueEndsDispatch ==
    [][/\ ParsingFlagWithoutValue
          => /\ err' = MkErr("error", "missing value for flag", "", Last(envs[cur].Args))
             /\ split'.parsed /\ split'.err = err'
             /\ split'.flags = <<>> /\ split'.free = <<>> /\ split'.toParse = <<>>
             /\ pc' = "unwind"
             /\ fs' = fs /\ envs' = envs /\ hooks' = hooks /\ out' = out
       /\ (pc = "unwind" /\ err.msg = "missing value for flag" /\ ~panic.active)
          => /\ err' = err
             /\ pc' \in {"unwind", "done"}
             /\ fs' = fs /\ envs' = envs /\ hooks' = hooks /\ out' = out]_vars

\* "one -B" on the tree of the parse tests under merge mode: Run has
\* returned the error of the resolver, naming -B; only the SetFlags hooks
\* of root and one have been invoked, and B is unset
C31_Witness ==
    /\ pc = "done"
    /\ calls = 1
    /\ ~envs[1].skipMerge
    /\ rawArgs = <<nOne, F1(nB)>>
    /\ err = MkErr("error", "missing value for flag", "", F1(nB))
    /\ Len(envs) = 2
    /\ [i \in 1..Len(hooks) |-> hooks[i].hook] = <<"SetFlags", "SetFlags">>
    /\ fs["one"][1].value = <<>>
    /\ out = <<>>

----------------------------------------------------------------------------
\* the tokens the flag package is given with a "--" between the flags and
\* the free tokens when there are both
Separated(flags, free) ==
    IF flags # <<>> /\ free # <<>> THEN flags \o <<tDashDash>> \o free ELSE flags \o free

\* the flag package accepts the flags of the scope and stops after them
FlagsAccepted ==
    /\ FlagParse(split.scope, split.flags).err = Nil
    /\ FlagParse(split.scope, split.flags).args = <<>>

\* C32 (as stated): the rejoin operation returns the flags followed by the
\* free tokens with a single "--" between them exactly when both are
\* non-empty, and the non-empty one unchanged otherwise, so that under merge
\* mode the flag package takes no free token for a flag: when it accepts
\* the flags it reports no error and leaves the free tokens as arguments
C32_JoinSeparatesByDashDash ==
    Resolved
    => /\ split.toParse = Separated(split.flags, split.free)
       /\ FlagsAccepted
          => /\ FlagParse(split.scope, split.toParse).err = Nil
             /\ FlagParse(split.scope, split.toParse).args = split.free

\* C32 (amended): the rejoin operation returns the flags followed by the
\* free tokens and inserts nothing.  Under merge mode no free token is bound
\* as a flag of the scope, but the flag package does read the first free
\* token: when it accepts the flags, a first free token "--" is dropped, one
\* shaped like a flag is rejected (not defined, bad syntax) or asks for
\* help, and any other one ends the flags and stays in the arguments
C32_JoinConcatenates ==
    Resolved
    => /\ split.toParse = split.flags \o split.free
       /\ Len(split.toParse) = Len(split.args)
       /\ FlagParse(split.scope, split.toParse).fs = FlagParse(split.scope, split.flags).fs
       /\ (FlagsAccepted /\ split.free # <<>>)
          => LET r == FlagParse(split.scope, split.toParse)
                 t == split.free[1]
             IN  IF t = tDashDash THEN r.err = Nil /\ r.args = Tail(split.free)
                 ELSE IF HasDashPrefix(t) /\ t # tDash
                 THEN r.err.msg \in {"flag provided but not defined",
                                     "flag: help requested", "bad flag syntax"}
                 ELSE r.err = Nil /\ r.args = split.free

\* a flag of the root with its value and, after it, a flag the root does not declare: the
\* flag package is given both, unseparated, and the dispatch ends with the
\* error that the second one is not defined
C32_Witness ==
    /\ pc = "done" /\ calls = 1
    /\ Resolved
    /\ split.args = <<F1(nA), t1, F1(nC)>>
    /\ split.flags = <<F1(nA), t1>>
    /\ split.free = <<F1(nC)>>
    /\ split.toParse = <<F1(nA), t1, F1(nC)>>
    /\ err.msg = "flag provided but not defined"
    /\ err.val = nC

----------------------------------------------------------------------------
\* the nearest Env on the parent chain of E[i], E[i] first, that holds a
\* context; 0 when there is none
RECURSIVE Owner(_, _)
Owner(E, i) ==
    IF E[i].ctx # 0 THEN i
    ELSE IF E[i].Parent = 0 THEN 0
    ELSE Owner(E, E[i].Parent)

\* Context and Cancel called on an Env of E resolve to the same Env and to
\* the same handle, or both to none
SameResolution(E) ==
    \A i \in 1..Len(E) :
        LET o == Owner(E, i) IN
        IF o = 0
        THEN Context(E, i) = 0 /\ CancelTarget(E, i) = 0
        ELSE /\ Context(E, i) = E[o].ctx
             /\ CancelTarget(E, i) = E[o].ctx
             /\ E[o].cancel = E[o].ctx

\* C33: Context() and Cancel(cause) resolve to the same Env, the nearest
\* one on the parent chain, the receiver first, that holds a handle:
\* Context returns that handle and Cancel cancels that handle and no other.
\* When no Env on the chain holds a handle, Context returns the background
\* context, the Cancel of a returning frame changes no handle, and no Env
\* is given a handle by it
C33_ContextAndCancelResolveAlike ==
    [][/\ SameResolution(envs)
       /\ SameResolution(envs')
       /\ pc = "unwind"
          => LET o == Owner(envs, cur) IN
             /\ envs' = envs
             /\ Len(handles') = Len(handles)
             /\ o = 0 => handles' = handles
             /\ o # 0 => /\ handles'[envs[o].ctx].canceled
                         /\ \A h \in 1..Len(handles) :
                                h # envs[o].ctx => handles'[h] = handles[h]]_vars

\* the Init hook of the leaf has cleared the context of its Env; the Cancel
\* of the returning leaf frame has resolved to the Env of the parent, which
\* holds the handle of the root, and has canceled that handle
C33_Witness ==
    /\ scen.tree = "topic"
    /\ pc = "unwind" /\ cur = 3
    /\ Len(envs) = 4
    /\ envs[4].Command = "leaf"
    /\ envs[4].ctx = 0 /\ envs[4].cancel = 0
    /\ envs[1].ctx = 1
    /\ Owner(envs, 4) = 3
    /\ Context(envs, 4) = 1
    /\ Len(handles) = 1
    /\ handles[1].canceled

----------------------------------------------------------------------------
\* C34: the Env given to a routed child is a fresh record whose Parent is
\* the Env of the parent, whose Command is the child named by the first
\* argument of the parent, whose Args are the tokens after that name, and
\* whose Config, Log, merge option and help flags are those of the parent at
\* the moment of routing; making it changes no field of an Env that exists,
\* and the parent of every Env is the Env before it, so that the parent
\* chain is a finite list without a cycle that ends at the root
C34_ChildEnvCopiesParent ==
    [][/\ (pc = "route" /\ cur' = cur + 1)
          => LET p == envs[cur]
                 c == envs'[cur + 1]
             IN  /\ Len(envs') = cur + 1
                 /\ c.Parent = cur
                 /\ c.Command = FindSubcommand(p.Command, p.Args[1])
                 /\ c.Args = Tail(p.Args)
                 /\ c.Config = p.Config
                 /\ c.Log = p.Log
                 /\ c.skipMerge = p.skipMerge
                 /\ c.hflag = p.hflag
                 /\ \A i \in 1..cur : envs'[i] = envs[i]
       /\ \A i \in 1..Len(envs') : envs'[i].Parent = i - 1]_vars

\* the Init hook of app has set Config and the call had switched merging
\* off: the Env of grp is made with both, with app's Env as its parent and
\* with the tokens after "grp"
C34_Witness ==
    /\ scen.tree = "topic"
    /\ pc = "setFlags" /\ cur = 2
    /\ Len(envs) = 2
    /\ envs[1].Command = "app"
    /\ envs[1].Args = <<nGrp, nMid, nLeaf>>
    /\ envs[1].Config = "config2"
    /\ envs[1].skipMerge
    /\ envs[2] = [envs[1] EXCEPT !.Parent = 1, !.Command = "grp", !.Args = <<nMid, nLeaf>>]

----------------------------------------------------------------------------
\* what an Init hook may set in its Env
Settings(e) ==
    [Config |-> e.Config, Log |-> e.Log, skipMerge |-> e.skipMerge,
     ctx |-> e.ctx, cancel |-> e.cancel]

\* C35: a change that the Init hook of node N makes to the Config, Log,
\* merge option or handle of its Env is seen by the action of N and by every
\* descendant dispatched below N: no later step of the traversal changes
\* these fields of an Env, the Env of a routed child starts with those of
\* its parent, and the child parses under the merge option it was given.
\* The Init step changes no Env of an ancestor of N, and it leaves the
\* arguments and the flag values that the parsing of N's tokens produced
C35_InitChangesReachDescendantsOnly ==
    [][/\ pc = "init"
          => /\ \A i \in 1..(cur - 1) : envs'[i] = envs[i]
             /\ envs'[cur].Args = envs[cur].Args
             /\ envs'[cur].Parent = envs[cur].Parent
             /\ envs'[cur].Command = envs[cur].Command
             /\ fs' = fs
             /\ split' = split
       /\ pc \in {"setFlags", "parse", "route", "exec", "unwind"}
          => \A i \in 1..Len(envs) : Settings(envs'[i]) = Settings(envs[i])
       /\ (pc = "route" /\ cur' = cur + 1)
          => Settings(envs'[cur + 1]) = Settings(envs[cur])
       /\ (pc = "parse" /\ split'.parsed)
          => split'.merged = ~envs[cur].skipMerge
       /\ (pc = "exec" /\ Len(hooks') = Len(hooks) + 1)
          => /\ Last(hooks').hook = "Run"
             /\ Last(hooks').env = cur
             /\ envs' = envs]_vars

\* the Init hook of app has set Config and the Init hook of leaf has
\* switched merging off, after leaf's -h was parsed under merging: the Run
\* function of leaf is invoked with an Env that has both, the Envs above
\* leaf have the Config of app and still merge
C35_Witness ==
    /\ scen.tree = "topic"
    /\ rawArgs = <<nGrp, nMid, nLeaf, F1(nH)>>
    /\ Len(envs) = 4
    /\ hooks # <<>>
    /\ Last(hooks).hook = "Run" /\ Last(hooks).node = "leaf" /\ Last(hooks).env = 4
    /\ \A i \in 1..4 : envs[i].Config = "config2"
    /\ envs[4].skipMerge
    /\ \A i \in 1..3 : ~envs[i].skipMerge
    /\ split.parsed /\ split.merged /\ split.flags = <<F1(nH)>>
    /\ fs["leaf"][1].value = nTrue

----------------------------------------------------------------------------
\* the step is one in which Run itself writes help: parseFlags for the help
\* flag, the routing step for a topic or for a name it does not understand,
\* or the step of a command without a Run function
DispatcherWritesHelp ==
    /\ \/ pc \in {"parse", "route"}
       \/ pc = "exec" /\ Cmd(cmd).Run = "none"
    /\ out' # out

\* C36: in one top-level Run at most one Run function is invoked, at most
\* once, and it is the last thing a frame does.  When Run itself writes help
\* (help flag, topic help, help of a command without action, "not
\* understood") or returns an error of the flag parsing or of an Init hook,
\* no Run function has been invoked and none is invoked afterwards: the
\* frames return
C36_AtMostOneRunAction ==
    [][/\ Len(RunCalls') <= 1
       /\ Len(RunCalls') > Len(RunCalls)
          => pc = "exec" /\ RunCalls = <<>> /\ pc' = "unwind"
       /\ DispatcherWritesHelp
          => RunCalls' = <<>> /\ err' = ErrRequestHelp /\ pc' = "unwind"
       /\ (pc \in {"parse", "init"} /\ err' # Nil)
          => RunCalls' = <<>> /\ pc' = "unwind"
       /\ pc = "unwind" => hooks' = hooks /\ out' = out /\ pc' \in {"unwind", "done"}]_vars

\* "help" asked of echo: parseFlags of the second frame has written the
\* long help of echo, both frames have returned the request for help, and
\* the Run function of echo was not invoked
C36_Witness ==
    /\ scen.tree = "example"
    /\ pc = "done" /\ calls = 1
    /\ rawArgs = <<nEcho, F1(nHelp)>>
    /\ Len(envs) = 2
    /\ Len(out) = 1 /\ out[1].kind = "long" /\ out[1].node = "echo"
    /\ err = ErrRequestHelp
    /\ RunCalls = <<>>

----------------------------------------------------------------------------
\* the flags the help of node n lists once its SetFlags hook has declared
\* them
DeclaredListed(n) ==
    IF Cmd(n).CustomFlags THEN {}
    ELSE {Cmd(n).Decl[i].name : i \in {j \in 1..Len(Cmd(n).Decl) : ~Cmd(n).Decl[j].private}}

\* C37: whenever help is written for a node (for the help flag, for a topic
\* child named last, for a node without action, or by a help-topic lookup)
\* the SetFlags hook of the node, when it has one, has already been
\* invoked, and the help lists the flags the node declares, whichever way
\* it was produced
C37_HelpAfterSetFlags ==
    \A k \in 1..Len(out) :
        out[k].kind \in {"long", "short"}
        => /\ Cmd(out[k].node).HasSetFlags => setFlagsCalls[out[k].node] > 0
           /\ out[k].flags = DeclaredListed(out[k].node)

\* "grp" is the only argument: Run has written the long help of the topic
\* grp, whose SetFlags hook declares -n, without a frame for grp; the hook
\* was never invoked and the help lists no flag
C37_Witness ==
    /\ scen.tree = "topic"
    /\ pc = "done" /\ calls = 1
    /\ rawArgs = <<nGrp>>
    /\ Len(envs) = 1
    /\ err = ErrRequestHelp
    /\ out = <<MkOut("long", "grp", <<>>, {}, <<"mid">>, <<>>)>>
    /\ Cmd("grp").HasSetFlags
    /\ setFlagsCalls["grp"] = 0
    /\ DeclaredListed("grp") = {nN}

----------------------------------------------------------------------------
\* one of the tokens A is written as the flag called name
Mentions(A, name) ==
    \E k \in 1..Len(A) :
        HasDashPrefix(A[k]) /\ A[k] \notin {tDash, tDashDash} /\ FlagName(A[k]) = name

\* C38: the values of the flags persist on the tree from one Run call to
\* the next.  A flag that a node has declared stays declared; its value
\* changes only in the step in which the frame of its node parses, and only
\* when one of the tokens the frame is given is written as that flag.  A
\* later call that does not mention the flag finds the value of the
\* earlier call, not the declared default
C38_FlagValuesPersist ==
    [][\A n \in Nodes :
         /\ Len(fs'[n]) >= Len(fs[n])
         /\ \A i \in 1..Len(fs[n]) :
              /\ fs'[n][i].name = fs[n][i].name
              /\ fs'[n][i].value # fs[n][i].value
                 => /\ pc = "parse"
                    /\ n = cmd
                    /\ Mentions(envs[cur].Args, fs[n][i].name)]_vars

\* the second call on the tree of the parse tests, with the arguments x y,
\* has run the Run function of the root; the flag -A of the root still has
\* the value 1 of the first call, not its default
C38_Witness ==
    /\ scen.tree = "parse"
    /\ pc = "done" /\ calls = 2
    /\ rawArgs = <<tX, <<"y">>>>
    /\ err = Nil
    /\ Len(RunCalls) = 1 /\ RunCalls[1].node = "root"
    /\ Len(fs["root"]) = 1
    /\ fs["root"][1].name = nA
    /\ fs["root"][1].value = t1
    /\ Cmd("root").Decl[1].value = <<>>

----------------------------------------------------------------------------
\* C39: after a top-level Run has returned, the handle of the Env it was
\* called with is canceled, and it stays canceled with the cause it has: no
\* later step changes it or gives the Env another one.  Every hook and Run
\* function that a second Run on the same Env invokes is handed an Env whose
\* context is that canceled handle
C39_HandleStaysCanceled ==
    [][RootOwnsHandle
       => /\ (calls' >= 1 /\ pc' \in {"done", "exited"})
             => handles'[envs'[1].ctx].canceled
          /\ handles[envs[1].ctx].canceled
             => /\ handles'[envs[1].ctx] = handles[envs[1].ctx]
                /\ envs'[1].ctx = envs[1].ctx
          /\ (calls >= 2 /\ Len(hooks') > Len(hooks))
             => \A k \in (Len(hooks) + 1)..Len(hooks') :
                    hooks'[k].env # 0
                    => /\ Context(envs, hooks'[k].env) = envs[1].ctx
                       /\ handles[envs[1].ctx].canceled]_vars

\* the first call returned nil and its return canceled the handle of the
\* root Env; the second call has invoked a Run function with the canceled
\* context and returned its error, and the handle still has the cause of
\* the first cancellation
C39_Witness ==
    /\ RootOwnsHandle
    /\ pc = "done" /\ calls = 2
    /\ Len(RunCalls) = 1
    /\ err # Nil
    /\ err = RunCalls[1].ret
    /\ handles[envs[1].ctx] = [canceled |-> TRUE, cause |-> Canceled]

----------------------------------------------------------------------------
\* a is b with some of its tokens removed
RECURSIVE SubsequenceOf(_, _)
SubsequenceOf(a, b) ==
    IF a = <<>> THEN TRUE
    ELSE IF b = <<>> THEN FALSE
    ELSE IF a[1] = b[1] THEN SubsequenceOf(Tail(a), Tail(b))
    ELSE SubsequenceOf(a, Tail(b))

\* C40: in every dispatch, with or without merging, the Args that each Init
\* hook and the selected Run function are given are the arguments of the
\* call with some tokens removed: the remaining ones are in their original
\* order, none is added and none occurs more often than in the call.  The
\* Args of every frame shrink from its parent's in the same way
C40_ArgsAreSubsequence ==
    /\ \A k \in 1..Len(hooks) :
           hooks[k].hook \in {"Init", "Run"} => SubsequenceOf(hooks[k].args, rawArgs)
    /\ pc \in {"init", "route", "exec"}
       => \A j \in 1..Len(envs) : SubsequenceOf(envs[j].Args, rawArgs)

\* under merging the flags of one, two and the root are written between the
\* names and the free arguments; the Run function of two is given x y
C40_Witness ==
    /\ scen.tree = "parse"
    /\ pc = "done" /\ calls = 1
    /\ ~envs[1].skipMerge
    /\ rawArgs = <<nOne, nTwo, F1(nC), <<"3">>, F2v(nA, t1), F1(nB), <<"2">>, tX, <<"y">>>>
    /\ err = Nil
    /\ Len(RunCalls) = 1
    /\ RunCalls[1].node = "two"
    /\ RunCalls[1].args = <<tX, <<"y">>>>
    /\ envs[2].Args = <<nTwo, F1(nC), <<"3">>, tX, <<"y">>>>

====
